---- MODULE Spec2Model ----
(***************************************************************************)
(* A model of three pieces of the seastar fragment:                        *)
(*   - temporary_memory_allocator (bump allocator with block headers),     *)
(*   - lz4_fragmented_compressor (chunk framing over a streaming LZ4),     *)
(* each with its own next-state relation over one shared set of variables. *)
(***************************************************************************)
EXTENDS Integers, Sequences, FiniteSets, Bags, TLC

VARIABLES
    \* ---- temporary_memory_allocator ----
    heap,                 \* regions obtained from the system and not yet returned
    current,              \* _current: address of the open block's header, 0 = nullptr
    position_in_current,  \* _position_in_current
    current_end,          \* _current_end
    current_use_count,    \* _current_use_count
    live,                 \* bag of allocations returned by alloc and not yet freed
    last,                 \* the last call and what it returned
    phase,                \* "running", "destroyed" (after teardown) or "crashed"
    ub,                   \* TRUE once a call had undefined behaviour
    \* ---- lz4_fragmented_compressor::compress ----
    c_pc,                 \* "idle", "chunks" (in the general path) or "done"
    c_in,                 \* the snd_buf given to compress
    head_space,           \* the head_space given to compress
    c_src,                \* src: index of the input buffer compress is at
    c_src_left,           \* src_left
    dst_buffers,          \* dst_buffers
    dst_offset,           \* dst_offset
    total_compressed_size,\* total_compressed_size
    chunk_data,           \* the thread-local scratch area chunk_data
    cstream,              \* the thread-local LZ4_stream_t
    c_out,                \* the snd_buf compress returned
    \* ---- lz4_fragmented_compressor::decompress ----
    d_pc,                 \* "idle", "chunks" (in the general path) or "done"
    d_in,                 \* the rcv_buf given to decompress
    d_reset,              \* what LZ4_setStreamDecode returned (TRUE: it went well)
    d_src,                \* src: index of the input buffer decompress is at
    d_src_left,           \* src_left
    d_src_offset,         \* src_offset
    header_value,         \* header_value
    d_dst_buffers,        \* dst_buffers
    total_size,           \* total_size
    chunk_buffer_size,    \* size of the thread-local chunk_buffer
    dstream,              \* the thread-local LZ4_streamDecode_t
    d_out,                \* what decompress returned or threw
    \* ---- tasks, futures and coroutines of one shard ----
    futures,              \* the shared state of each promise/future pair
    coros,                \* the coroutines: frame, promise_type, awaiter
    active,               \* the coroutine whose body is running, 0 = none
    queue,                \* the task queue: the handovers waiting, head first
    log,                  \* the handovers made to the scheduler and what it did
    stopping              \* TRUE once the scheduler is being shut down

allocVars == <<heap, current, position_in_current, current_end,
               current_use_count, live, last, phase, ub>>

compressVars == <<c_pc, c_in, head_space, c_src, c_src_left, dst_buffers,
                  dst_offset, total_compressed_size, chunk_data, cstream, c_out>>

decompressVars == <<d_pc, d_in, d_reset, d_src, d_src_left, d_src_offset, header_value,
                    d_dst_buffers, total_size, chunk_buffer_size, dstream, d_out>>

codecVars == <<compressVars, decompressVars>>

coroVars == <<futures, coros, active, queue, log, stopping>>

vars == <<allocVars, compressVars, decompressVars, coroVars>>

(***************************************************************************)
(* Bounds of the model                                                     *)
(***************************************************************************)
NumSlots == 3   \* block_size-aligned addresses the system allocator can hand out
MaxLive == 2    \* allocations that are live at the same time
MaxUse == 5     \* allocations made from one open block
MaxChunks == 3  \* chunks of the frames given to the codec
NumTasks == 2   \* closure tasks handed to the scheduler
NumCoros == 2   \* coroutines
NumPromises == 2 \* promise/future pairs set from outside the coroutines
MaxAwaits == 2  \* co_await expressions one coroutine evaluates

(***************************************************************************)
(* temporary_memory_allocator: constants                                   *)
(***************************************************************************)
alignment == 16
block_size == 131072
max_object_size == 32768
header_size == 16

nullptr == 0

\* Sizes passed to alloc: zero; a size that is no multiple of the alignment
\* and that, after three objects of max_object_size, makes the bump position
\* reach the end of the block; max_object_size itself; and the smallest size
\* of the large-object path.
AllocSizes == {0, block_size - header_size - 3 * max_object_size - 7,
               max_object_size, max_object_size + 1}

align_up(v, a) == ((v + a - 1) \div a) * a

align_down(v, a) == (v \div a) * a

Bases == {k * block_size : k \in 1..NumSlots}

AddressLimit == (NumSlots + 1) * block_size

Overlaps(b1, s1, b2, s2) == b1 < b2 + s2 /\ b2 < b1 + s1

\* The addresses the system allocator may return for a request of `size`
\* bytes aligned to block_size: any aligned range that is not in use.
FreeBases(size) ==
    {b \in Bases : /\ b + size <= AddressLimit
                   /\ \A r \in heap : ~Overlaps(b, size, r.base, r.size)}

RegionAt(addr) == {r \in heap : r.base = addr}

\* A live allocation: the pointer alloc returned, the size asked for and
\* `blk`, the header address of the block whose counter counted it
\* (nullptr when there was no open block).  `blk` is not program state: it
\* is how the properties name "the block an object was allocated from".
Obj(p, size, blk) == [p |-> p, size |-> size, blk |-> blk]

\* The region at `base` was returned to the system: allocations still counted
\* in it are left with `blk` telling what was returned under them, a bump
\* block or the dedicated block of a large object.
ReturnedBlock == -1

ReturnedLarge == -2

Orphan(objs, r) ==
    LET os == BagToSet(objs)
        mark == IF r.kind = "large" THEN ReturnedLarge ELSE ReturnedBlock
        moved(o) == IF o.blk = r.base THEN [o EXCEPT !.blk = mark] ELSE o
        img == {moved(o) : o \in os}
        total(x) == LET src == {o \in os : moved(o) = x}
                        RECURSIVE sum(_)
                        sum(S) == IF S = {} THEN 0
                                  ELSE LET o == CHOOSE y \in S : TRUE
                                       IN objs[o] + sum(S \ {o})
                    IN sum(src)
    IN  [x \in img |-> total(x)]

\* A call as recorded in `last`: `threw` tells that it ended in an exception
\* (std::bad_alloc), and `ret` is then meaningless.
Call(op, size, ret, path, threw) ==
    [op |-> op, size |-> size, ret |-> ret, path |-> path, threw |-> threw]

NoCall == Call("none", 0, 0, "none", FALSE)

AllocInit ==
    /\ heap = {}
    /\ current = nullptr
    /\ position_in_current = nullptr
    /\ current_end = nullptr
    /\ current_use_count = 0
    /\ live = EmptyBag
    /\ last = NoCall
    /\ phase = "running"
    /\ ub = FALSE

OpenBlock == CHOOSE r \in heap : r.base = current

\* close_current(): the allocation count of the open block is posted to its
\* header; the value the header then has.
closed_use_count == OpenBlock.use_count + current_use_count

\* close_current(): the regions held afterwards (the open block is returned
\* when its posted count is zero).
close_current_heap ==
    IF current = nullptr THEN heap
    ELSE IF closed_use_count = 0 THEN heap \ {OpenBlock}
    ELSE (heap \ {OpenBlock}) \cup
         {[OpenBlock EXCEPT !.use_count = closed_use_count]}

close_current_live ==
    IF current # nullptr /\ closed_use_count = 0
    THEN Orphan(live, OpenBlock) ELSE live

allocate_new_block_unadvanced(size, block) ==
    /\ heap' = close_current_heap \cup
               {[base |-> block, size |-> block_size, use_count |-> 0,
                 kind |-> "bump"]}
    /\ current' = block
    /\ position_in_current' = block + header_size
    /\ current_end' = block + block_size
    /\ current_use_count' = 1
    /\ live' = close_current_live (+)
               SetToBag({Obj(block + header_size, size, block)})
    /\ last' = Call("alloc", size, block + header_size, "new_block", FALSE)

\* allocate_new_block(size), ::aligned_alloc returned `block`.
allocate_new_block(size, block) ==
    /\ heap' = close_current_heap \cup
               {[base |-> block, size |-> block_size, use_count |-> 0,
                 kind |-> "bump"]}
    /\ current' = block
    /\ position_in_current' = block + header_size + align_up(size, alignment)
    /\ current_end' = block + block_size
    /\ current_use_count' = 1
    /\ live' = close_current_live (+)
               SetToBag({Obj(block + header_size, size, block)})
    /\ last' = Call("alloc", size, block + header_size, "new_block", FALSE)

\* allocate_large_object(size), ::posix_memalign returned `block`.
allocate_large_object(size, block) ==
    /\ heap' = heap \cup {[base |-> block, size |-> header_size + size,
                           use_count |-> 1, kind |-> "large"]}
    /\ live' = live (+) SetToBag({Obj(block + header_size, size, block)})
    /\ last' = Call("alloc", size, block + header_size, "large", FALSE)
    /\ UNCHANGED <<current, position_in_current, current_end, current_use_count>>

bad_alloc_after_close(size, path) ==
    /\ last' = Call("alloc", size, 0, path, TRUE)
    /\ heap' = close_current_heap
    /\ live' = close_current_live
    /\ current' = nullptr
    /\ position_in_current' = nullptr
    /\ current_use_count' = 0
    /\ UNCHANGED current_end

\* The system allocator had no memory: std::bad_alloc, thrown before
\* anything was changed.
bad_alloc(size, path) ==
    /\ last' = Call("alloc", size, 0, path, TRUE)
    /\ UNCHANGED <<heap, current, position_in_current, current_end,
                   current_use_count, live>>

\* The inline part of alloc(size): the bump of the open block.
bump(size) ==
    LET pos == position_in_current
        end_pos == pos + size
    IN  /\ position_in_current' = align_up(end_pos, alignment)
        /\ current_use_count' = current_use_count + 1
        /\ live' = live (+) SetToBag({Obj(pos, size, current)})
        /\ last' = Call("alloc", size, pos, "bump", FALSE)
        /\ UNCHANGED <<heap, current, current_end>>

\* The test of alloc(size) that sends it to allocate_new_block.
exhausted(size) == position_in_current + size > current_end

alloc(size) ==
    /\ phase = "running"
    /\ BagCardinality(live) < MaxLive
    /\ IF size > max_object_size
       THEN \/ \E block \in FreeBases(header_size + size) :
                   allocate_large_object(size, block)
            \/ bad_alloc(size, "large")
       ELSE IF exhausted(size)
       THEN \/ \E block \in FreeBases(block_size) :
                   allocate_new_block(size, block)
            \/ bad_alloc(size, "new_block")
       ELSE /\ current_use_count < MaxUse
            /\ bump(size)
    /\ UNCHANGED <<phase, ub>>

\* free(ptr): the header is looked up by rounding the pointer down.
free_header(p) == align_down(p, block_size)

free_owned_net(o, r) ==
    /\ r.use_count > 0 - MaxUse
    /\ IF r.use_count - 1 + (IF r.base = current THEN current_use_count ELSE 0) = 0
       THEN /\ heap' = heap \ {r}
            /\ live' = Orphan(live (-) SetToBag({o}), r)
       ELSE /\ heap' = (heap \ {r}) \cup {[r EXCEPT !.use_count = r.use_count - 1]}
            /\ live' = live (-) SetToBag({o})
    /\ UNCHANGED <<phase, ub>>

\* free(ptr) where the rounded-down pointer is the header of a region the
\* allocator holds: the counter is decremented and the region returned to
\* the system when it reaches zero.
free_owned(o, r) ==
    /\ r.use_count > 0 - MaxUse
    /\ IF r.use_count - 1 = 0
       THEN /\ heap' = heap \ {r}
            /\ live' = Orphan(live (-) SetToBag({o}), r)
       ELSE /\ heap' = (heap \ {r}) \cup {[r EXCEPT !.use_count = r.use_count - 1]}
            /\ live' = live (-) SetToBag({o})
    /\ UNCHANGED <<phase, ub>>

\* free(ptr) where the rounded-down pointer is not the header of any region
\* the allocator holds (nullptr, memory already returned to the system): the
\* decrement is undefined behaviour.  The build either faults or writes
\* through silently; a write through nullptr faults.
free_wild(o) ==
    /\ ub' = TRUE
    /\ heap' = heap
    /\ live' = live (-) SetToBag({o})
    /\ \/ phase' = "crashed"
       \/ free_header(o.p) # nullptr /\ phase' = phase

free(o) ==
    /\ phase = "running"
    /\ last' = Call("free", 0, o.p, "none", FALSE)
    /\ IF RegionAt(free_header(o.p)) # {}
       THEN free_owned(o, CHOOSE r \in heap : r.base = free_header(o.p))
       ELSE free_wild(o)
    /\ UNCHANGED <<current, position_in_current, current_end, current_use_count>>

\* The allocator is destroyed.  Its destructor is the implicit one (the
\* user-written one that calls close_current() is commented out).
teardown ==
    /\ phase = "running"
    /\ phase' = "destroyed"
    /\ last' = Call("teardown", 0, 0, "none", FALSE)
    /\ UNCHANGED <<heap, current, position_in_current, current_end,
                   current_use_count, live, ub>>

(***************************************************************************)
(* Byte strings.  A byte string is a sequence of pieces; a piece stands for *)
(* the bytes lo .. hi-1 of one source of bytes:                             *)
(*   "b"  one byte of value a (lo = 0, hi = 1),                             *)
(*   "in" the bytes of the message given to compress,                       *)
(*   "z"  the block LZ4 produced for the message bytes a .. b-1 with c      *)
(*        bytes of earlier history in its stream; the block is n bytes,     *)
(*   "u"  bytes of a buffer that were never written,                        *)
(*   "s"  bytes left in a retained scratch area by an earlier frame.        *)
(* The codec never looks inside the message or inside an LZ4 block, so a    *)
(* piece is as good as the bytes it stands for.                             *)
(***************************************************************************)
Piece(t, a, b, c, n, lo, hi) ==
    [t |-> t, a |-> a, b |-> b, c |-> c, n |-> n, lo |-> lo, hi |-> hi]

Byte(v) == Piece("b", v, 0, 0, 1, 0, 1)

In(lo, hi) == Piece("in", 0, 0, 0, 0, lo, hi)

Z(a, b, c, n) == Piece("z", a, b, c, n, 0, n)

Uninit(n) == Piece("u", 0, 0, 0, 0, 0, n)

Stale(n) == Piece("s", 0, 0, 0, 0, 0, n)

Min(x, y) == IF x < y THEN x ELSE y

Max(x, y) == IF x > y THEN x ELSE y

PLen(p) == p.hi - p.lo

RECURSIVE BLen(_)
BLen(bs) == IF bs = <<>> THEN 0 ELSE PLen(Head(bs)) + BLen(Tail(bs))

\* The first k bytes of bs (all of bs when it is shorter).
RECURSIVE BTake(_, _)
BTake(bs, k) ==
    IF k <= 0 \/ bs = <<>> THEN <<>>
    ELSE LET p == Head(bs)
         IN  IF PLen(p) <= k THEN <<p>> \o BTake(Tail(bs), k - PLen(p))
             ELSE <<[p EXCEPT !.hi = p.lo + k]>>

\* bs without its first k bytes.
RECURSIVE BDrop(_, _)
BDrop(bs, k) ==
    IF bs = <<>> THEN <<>>
    ELSE IF k <= 0 THEN bs
    ELSE LET p == Head(bs)
         IN  IF PLen(p) <= k THEN BDrop(Tail(bs), k - PLen(p))
             ELSE <<[p EXCEPT !.lo = p.lo + k]>> \o Tail(bs)

Joins(p, q) ==
    /\ p.t = q.t
    /\ p.t # "b"
    /\ p.a = q.a /\ p.b = q.b /\ p.c = q.c /\ p.n = q.n
    /\ p.hi = q.lo

\* The same bytes with empty pieces dropped and adjoining pieces joined:
\* two byte strings are the same bytes iff their normal forms are equal.
RECURSIVE Norm(_)
Norm(bs) ==
    IF bs = <<>> THEN <<>>
    ELSE LET p == Head(bs)
             r == Norm(Tail(bs))
         IN  IF PLen(p) = 0 THEN r
             ELSE IF r # <<>> /\ Joins(p, Head(r))
             THEN <<[p EXCEPT !.hi = Head(r).hi]>> \o Tail(r)
             ELSE <<p>> \o r

RECURSIVE Concat(_)
Concat(bufs) == IF bufs = <<>> THEN <<>> ELSE Head(bufs) \o Concat(Tail(bufs))

\* std::copy_n(bytes, ..., buf + off)
Write(buf, off, bytes) ==
    Norm(BTake(buf, off) \o bytes \o BDrop(buf, off + BLen(bytes)))

\* temporary_buffer<char>(size): size bytes, not initialised.
temporary_buffer(size) == Norm(<<Uninit(size)>>)

(***************************************************************************)
(* lz4_fragmented_compressor: constants and the wire format                 *)
(***************************************************************************)
chunk_header_size == 4
chunk_size == 131072

\* A uint32_t chunk header value, kept as its bit 31 (`last`, the
\* last_chunk_flag) and its 31 low bits (`n`).
Header(flag, n) == [last |-> flag, n |-> n]

\* write_le<uint32_t>: the four bytes of the value, least significant
\* first; bit 31 is the top bit of the fourth byte.
write_le(h) ==
    <<Byte(h.n % 256), Byte((h.n \div 256) % 256),
      Byte((h.n \div 65536) % 256),
      Byte(((h.n \div 16777216) % 128) + (IF h.last THEN 128 ELSE 0))>>

\* le_to_cpu of the uint32_t made of four bytes.
le_to_cpu(bs) ==
    IF Len(bs) = 4 /\ \A i \in 1..4 : bs[i].t = "b"
    THEN Header(bs[4].a >= 128,
                bs[1].a + 256 * bs[2].a + 65536 * bs[3].a
                        + 16777216 * (bs[4].a % 128))
    ELSE Header(FALSE, 0)

\* header & last_chunk_flag
has_last_chunk_flag(h) == h.last

\* header & ~last_chunk_flag
clear_last_chunk_flag(h) == h.n

\* last_chunk_flag | n
set_last_chunk_flag(n) == Header(TRUE, n)

(***************************************************************************)
(* LZ4, as far as the codec relies on it                                    *)
(***************************************************************************)
LZ4_COMPRESSBOUND(n) == IF n > 2113929216 THEN 0 ELSE n + n \div 255 + 16

\* The sizes LZ4_compress_fast_continue may return for m bytes: what it
\* makes of a run of one byte value, of data that shrinks by a few bytes
\* (so that chunk headers come to straddle segment boundaries), and of data
\* that does not compress (one token, the length bytes and the literals).
CompressedSizes(m) ==
    IF m < 16 THEN {m + 1}
    ELSE {m \div 255 + 12, m - 6, m + (m - 15) \div 255 + 2}

\* LZ4_compress_fast_continue(stream, src, dst, srcSize, ...): the block it
\* writes, of `csize` bytes, for the message bytes `src` with the stream
\* holding `stream` bytes of history.
LZ4_compress_fast_continue(stream, src, csize) ==
    LET s == Norm(src)
    IN  IF s = <<>> THEN <<Z(0, 0, stream, csize)>>
        ELSE <<Z(s[1].lo, s[Len(s)].hi, stream, csize)>>

\* LZ4_decompress_safe_continue(stream, src, dst, compressedSize,
\* maxDecompressedSize): the number of bytes decoded, or -1.  Decoding
\* works on one whole block, with the history the block was made with, into
\* a buffer that holds what the block decodes to.
LZ4_decompress_safe_continue(stream, src, capacity) ==
    LET s == Norm(src)
    IN  IF /\ Len(s) = 1
           /\ s[1].t = "z" /\ s[1].lo = 0 /\ s[1].hi = s[1].n
           /\ s[1].c = stream
           /\ s[1].b - s[1].a <= capacity
        THEN s[1].b - s[1].a
        ELSE -1

\* What a successful LZ4_decompress_safe_continue wrote to dst (nothing
\* that can be relied on when src is not a block).
LZ4_decoded(src) ==
    LET s == Norm(src)
    IN  IF s # <<>> /\ s[1].t = "z" THEN Norm(<<In(s[1].a, s[1].b)>>) ELSE <<>>

(***************************************************************************)
(* snd_buf / rcv_buf: one buffer, or a vector of buffers                    *)
(***************************************************************************)
Buf(bufs, size, single) == [bufs |-> bufs, size |-> size, single |-> single]

NoBuf == Buf(<<>>, 0, FALSE)

\* The message bytes lo .. hi-1 as buffers of chunk_size (the last one may
\* be shorter).
RECURSIVE Segments(_, _)
Segments(lo, hi) ==
    IF hi - lo <= chunk_size THEN <<Norm(<<In(lo, hi)>>)>>
    ELSE <<Norm(<<In(lo, lo + chunk_size)>>)>> \o Segments(lo + chunk_size, hi)

\* A message of n bytes as snd_buf makes it: one buffer when it fits in
\* chunk_size, else a vector of buffers of chunk_size; `vector` asks for
\* the vector form of a message that would fit in one buffer.
MakeSndBuf(n, vector) ==
    IF n <= chunk_size /\ ~vector
    THEN Buf(<<Norm(<<In(0, n)>>)>>, n, TRUE)
    ELSE Buf(Segments(0, n), n, FALSE)

\* Message sizes: the ends of the fast path (the largest size whose bound
\* fits a chunk with no head space is 130540), the ends of a chunk, and one
\* byte and a full chunk past each whole number of chunks.
InputSizes ==
    {0, 1, 130540, 130541, chunk_size} \cup
    {k * chunk_size + d : k \in 1..(MaxChunks - 1), d \in {1, chunk_size}}

\* head_space: none, a few bytes, the largest that leaves the fast path to
\* an empty message, the largest of the documented range, more than a chunk.
HeadSpaces == {0, 8, chunk_size - 20, chunk_size - 4, chunk_size + 8}

(***************************************************************************)
(* lz4_fragmented_compressor::compress                                      *)
(***************************************************************************)
chunk_data_size == chunk_header_size + LZ4_COMPRESSBOUND(chunk_size)

CompressInit ==
    /\ c_pc = "idle"
    /\ c_in = NoBuf
    /\ head_space = 0
    /\ c_src = 1
    /\ c_src_left = 0
    /\ dst_buffers = <<>>
    /\ dst_offset = 0
    /\ total_compressed_size = 0
    /\ chunk_data = <<Stale(chunk_data_size)>>
    /\ cstream = 0
    /\ c_out = NoBuf

\* LZ4_resetStream left out: the stream keeps the history it holds.
reset_stream_kept(stream) == stream

\* LZ4_resetStream(stream.get()): the history the stream holds afterwards.
reset_stream(stream) == 0

\* first_offset without the head space.
first_offset_zero(hs) == 0

\* Where the first chunk header goes in the first output buffer
\* (header = dst.get_write() + head_space; dst_offset = head_space).
first_offset(hs) == hs

single_chunk_size_headless(hs, size_left) ==
    LZ4_COMPRESSBOUND(size_left) + chunk_header_size

\* The test that selects the path for small messages.
single_chunk_size(hs, size_left) ==
    LZ4_COMPRESSBOUND(size_left) + hs + chunk_header_size

fast_path(hs, size_left) ==
    single_chunk_size(hs, size_left) <= chunk_size /\ size_left <= chunk_size

\* last_header with the flag left out.
last_header_unflagged(size_left) == Header(FALSE, size_left)

\* The header value compress writes for the last chunk.
last_header(size_left) == set_last_chunk_flag(size_left)

\* intermediate_header with the decompressed size in place of the compressed.
intermediate_header_decompressed(compressed_size) == Header(FALSE, chunk_size)

\* The header value compress writes for an intermediate chunk.
intermediate_header(compressed_size) == Header(FALSE, compressed_size)

\* The path for small messages: one buffer, header at head_space, the
\* block after it, trimmed to what was written.
compress_fast(hs, data, block) ==
    LET size_left == data.size
        dst0 == temporary_buffer(single_chunk_size(hs, size_left))
        header == first_offset(hs)
        dst1 == Write(dst0, header + chunk_header_size, block)
        dst2 == Write(dst1, header, write_le(last_header(size_left)))
        dst3 == Norm(BTake(dst2, hs + chunk_header_size + BLen(block)))
    IN  Buf(<<dst3>>, BLen(dst3), TRUE)

\* write_chunk_to_dst: copies `bytes` (the header and the block, taken from
\* chunk_data) to the output buffers, opening a buffer of chunk_size
\* whenever the last one is full.  Yields the buffers and dst_offset.
RECURSIVE write_chunk_to_dst(_, _, _)
write_chunk_to_dst(bufs, off, bytes) ==
    IF BLen(bytes) = 0 THEN [bufs |-> bufs, off |-> off]
    ELSE LET full == off = BLen(bufs[Len(bufs)])
             bufs1 == IF full THEN Append(bufs, temporary_buffer(chunk_size))
                      ELSE bufs
             off1 == IF full THEN 0 ELSE off
             dst == bufs1[Len(bufs1)]
             this_length == Min(BLen(dst) - off1, BLen(bytes))
         IN  write_chunk_to_dst(
                 [bufs1 EXCEPT ![Len(bufs1)] = Write(dst, off1, BTake(bytes, this_length))],
                 off1 + this_length,
                 BDrop(bytes, this_length))

\* chunk_data after the block was compressed into it (behind the header)
\* and the header value written at its start.
fill_chunk_data(hdr, block) ==
    Write(Write(chunk_data, chunk_header_size, block), 0, write_le(hdr))

\* more_chunks with >= for >.
more_chunks_inclusive(src_left) == src_left >= chunk_size

\* The loop test of the intermediate chunks.
more_chunks(src_left) == src_left > chunk_size

\* compress(head_space, data) up to the point where the general path
\* starts its loop; the fast path returns here.
compress_call(hs, data) ==
    /\ c_pc = "idle"
    /\ c_in' = data
    /\ head_space' = hs
    /\ c_src' = 1
    /\ IF fast_path(hs, data.size)
       THEN \E csize \in CompressedSizes(data.size) :
              LET block == LZ4_compress_fast_continue(
                               reset_stream(cstream), data.bufs[1], csize)
              IN  /\ c_out' = compress_fast(hs, data, block)
                  /\ cstream' = reset_stream(cstream) + data.size
                  /\ c_pc' = "done"
                  /\ c_src_left' = data.size
                  /\ dst_buffers' = <<>>
                  /\ dst_offset' = 0
                  /\ total_compressed_size' = 0
                  /\ chunk_data' = <<Stale(chunk_data_size)>>
       ELSE /\ cstream' = reset_stream(cstream)
            /\ dst_buffers' = <<temporary_buffer(Max(hs, chunk_size))>>
            /\ dst_offset' = first_offset(hs)
            /\ total_compressed_size' = 0
            /\ c_src_left' = data.size
            /\ chunk_data' = <<Stale(chunk_data_size)>>
            /\ c_out' = NoBuf
            /\ c_pc' = "chunks"

\* One turn of the loop over the intermediate chunks.
compress_intermediate(csize) ==
    /\ c_pc = "chunks"
    /\ more_chunks(c_src_left)
    /\ LET block == LZ4_compress_fast_continue(
                        cstream, BTake(c_in.bufs[c_src], chunk_size), csize)
           filled == fill_chunk_data(intermediate_header(csize), block)
           w == write_chunk_to_dst(dst_buffers, dst_offset,
                                   BTake(filled, csize + chunk_header_size))
       IN  /\ chunk_data' = filled
           /\ cstream' = cstream + chunk_size
           /\ c_src_left' = c_src_left - chunk_size
           /\ total_compressed_size' = total_compressed_size + csize + chunk_header_size
           /\ c_src' = c_src + 1
           /\ dst_buffers' = w.bufs
           /\ dst_offset' = w.off
    /\ UNCHANGED <<c_pc, c_in, head_space, c_out>>

last_untrimmed(bufs, off) == bufs

\* last.trim(dst_offset): the last output buffer is cut to what was written.
last_trim(bufs, off) ==
    [bufs EXCEPT ![Len(bufs)] = Norm(BTake(bufs[Len(bufs)], off))]

\* The last chunk, the trim of the last buffer and the return.
compress_last(csize) ==
    /\ c_pc = "chunks"
    /\ ~more_chunks(c_src_left)
    /\ LET block == LZ4_compress_fast_continue(
                        cstream, BTake(c_in.bufs[c_src], c_src_left), csize)
           filled == fill_chunk_data(last_header(c_src_left), block)
           w == write_chunk_to_dst(dst_buffers, dst_offset,
                                   BTake(filled, csize + chunk_header_size))
           total == total_compressed_size + csize + chunk_header_size + head_space
           trimmed == last_trim(w.bufs, w.off)
       IN  /\ chunk_data' = <<Stale(chunk_data_size)>>
           /\ cstream' = cstream + c_src_left
           /\ total_compressed_size' = total
           /\ dst_buffers' = trimmed
           /\ dst_offset' = w.off
           /\ c_out' = IF Len(trimmed) = 1
                       THEN Buf(trimmed, BLen(trimmed[1]), TRUE)
                       ELSE Buf(trimmed, total, FALSE)
           /\ c_pc' = "done"
    /\ UNCHANGED <<c_in, head_space, c_src, c_src_left>>

(***************************************************************************)
(* lz4_fragmented_compressor::decompress                                    *)
(***************************************************************************)
Result(status, buf) == [status |-> status, buf |-> buf]

NoResult == Result("none", NoBuf)

DecompressInit ==
    /\ d_pc = "idle"
    /\ d_in = NoBuf
    /\ d_reset = TRUE
    /\ d_src = 1
    /\ d_src_left = 0
    /\ d_src_offset = 0
    /\ header_value = Header(FALSE, 0)
    /\ d_dst_buffers = <<>>
    /\ total_size = 0
    /\ chunk_buffer_size = LZ4_COMPRESSBOUND(chunk_size)
    /\ dstream = 0
    /\ d_out = NoResult

\* The bytes `bytes` cut into buffers of chunk_size (the last one may be
\* shorter).
RECURSIVE Chunked(_)
Chunked(bytes) ==
    IF BLen(bytes) <= chunk_size THEN <<Norm(bytes)>>
    ELSE <<Norm(BTake(bytes, chunk_size))>> \o Chunked(BDrop(bytes, chunk_size))

\* A frame as the rcv_buf the receiver hands to decompress: in one buffer,
\* or in a vector of buffers of chunk_size.
MakeRcvBuf(frame, vector) ==
    IF vector THEN Buf(Chunked(frame), BLen(frame), FALSE)
    ELSE Buf(<<Norm(frame)>>, BLen(frame), TRUE)

\* The frame compress returned, as sent: the bytes after the head space.
SentFrame == BDrop(Concat(c_out.bufs), head_space)

\* The length of the first chunk of a frame: header and block (the whole
\* frame when its first chunk is the last one).
FirstChunkLen(frame) ==
    LET h == le_to_cpu(BTake(frame, chunk_header_size))
    IN  IF has_last_chunk_flag(h) THEN BLen(frame)
        ELSE Min(BLen(frame), chunk_header_size + h.n)

\* What reaches decompress of a frame that was sent: the frame, or a frame
\* damaged on the way: only its first 3 bytes, the frame less its last
\* byte, the frame less its first chunk, the frame with its first chunk
\* twice, the frame up to the last byte but one of its first chunk, the
\* first chunk alone (the last four for a frame of several chunks).
Damages == {"none", "short", "cut", "drop", "repeat", "torn", "unterminated"}

Received(frame, damage) ==
    LET first == FirstChunkLen(frame)
    IN  CASE damage = "none" -> frame
          [] damage = "short" -> BTake(frame, 3)
          [] damage = "cut" -> BTake(frame, BLen(frame) - 1)
          [] damage = "drop" ->
                 IF first < BLen(frame) THEN BDrop(frame, first) ELSE frame
          [] damage = "repeat" ->
                 IF first < BLen(frame) THEN BTake(frame, first) \o frame ELSE frame
          [] damage = "torn" ->
                 IF first < BLen(frame) THEN BTake(frame, first - 1) ELSE frame
          [] damage = "unterminated" ->
                 IF first < BLen(frame) THEN BTake(frame, first) ELSE frame

\* The test that rejects a frame too short for a header.
too_short(size) == size < 4

\* copy_src(dst, n): n bytes from the input, starting at (src, off) and
\* stepping to the next buffer at the end of each.  Yields the bytes, the
\* position reached and whether it stepped past the last buffer.
RECURSIVE copy_src(_, _, _, _)
copy_src(bufs, src, off, n) ==
    IF n = 0 THEN [bytes |-> <<>>, src |-> src, off |-> off, past |-> FALSE]
    ELSE LET step == off = BLen(bufs[src])
             src1 == IF step THEN src + 1 ELSE src
             off1 == IF step THEN 0 ELSE off
         IN  IF src1 > Len(bufs)
             THEN [bytes |-> <<>>, src |-> src1, off |-> off1, past |-> TRUE]
             ELSE LET this_size == Min(n, BLen(bufs[src1]) - off1)
                      rest == copy_src(bufs, src1, off1 + this_size, n - this_size)
                  IN  [bytes |-> BTake(BDrop(bufs[src1], off1), this_size) \o rest.bytes,
                       src |-> rest.src, off |-> rest.off, past |-> rest.past]

decompress_fast_path_any(data, header) == has_last_chunk_flag(header)

\* The test that selects the path for a single last chunk in one buffer.
decompress_fast_path(data, header) == data.single /\ has_last_chunk_flag(header)

\* decompress_throw that returns an empty buffer, as a short frame does.
decompress_throw_swallowed(what) ==
    /\ d_out' = Result("ok", NoBuf)
    /\ d_pc' = "done"

\* The leave of decompress with an exception.
decompress_throw(what) ==
    /\ d_out' = Result(what, NoBuf)
    /\ d_pc' = "done"

\* copy_src does not compare n with src_left: asked for more bytes than the
\* input has left, it steps past the last buffer (++src) and reads what
\* lies there.  What the call does from there on: the process is ended by
\* a memory fault; LZ4 rejects the foreign bytes; a foreign header has the
\* last-chunk flag and temporary_buffer(src_left), with src_left wrapped
\* around, throws std::bad_alloc.
BeyondOutcomes == {"terminated", "decompression failure", "bad_alloc"}

\* src_left -= n in size_t.  A negative number r stands for the value
\* 2^64 + r the subtraction wraps around to.
src_left_minus(src_left, n) == src_left - n

\* The return of the general path: one buffer alone, or the vector.
decompress_return(bufs, total) ==
    IF Len(bufs) = 1 THEN Buf(bufs, BLen(bufs[1]), TRUE)
    ELSE Buf(bufs, total, FALSE)

\* decompress(data) up to the point where the general path starts its
\* loop; a short frame, a failed reset and the fast path return here.
\* `reset_ok` is what LZ4_setStreamDecode returned.
decompress_call(data, reset_ok) ==
    /\ d_pc = "idle"
    /\ d_in' = data
    /\ d_reset' = (too_short(data.size) \/ reset_ok)
    /\ d_dst_buffers' = <<>>
    /\ total_size' = 0
    /\ UNCHANGED chunk_buffer_size
    /\ IF too_short(data.size)
       THEN /\ d_out' = Result("ok", NoBuf)
            /\ d_pc' = "done"
            /\ UNCHANGED <<d_src, d_src_left, d_src_offset, header_value, dstream>>
       ELSE IF ~reset_ok
       THEN /\ decompress_throw("reset failed")
            /\ UNCHANGED <<d_src, d_src_left, d_src_offset, header_value, dstream>>
       ELSE LET first == le_to_cpu(BTake(data.bufs[1], chunk_header_size))
            IN  IF decompress_fast_path(data, first)
                THEN LET header == clear_last_chunk_flag(first)
                         src_left == data.size - chunk_header_size
                         src == BTake(BDrop(data.bufs[1], chunk_header_size), src_left)
                         r == LZ4_decompress_safe_continue(0, src, header)
                     IN  /\ d_src' = 1
                         /\ d_src_offset' = chunk_header_size
                         /\ d_src_left' = src_left
                         /\ header_value' = first
                         /\ IF r < 0
                            THEN /\ decompress_throw("decompression failure")
                                 /\ dstream' = 0
                            ELSE /\ d_out' = Result("ok",
                                        LET dst == Write(temporary_buffer(header), 0,
                                                         LZ4_decoded(src))
                                        IN  Buf(<<dst>>, BLen(dst), TRUE))
                                 /\ dstream' = r
                                 /\ d_pc' = "done"
                ELSE LET h == copy_src(data.bufs, 1, 0, chunk_header_size)
                     IN  /\ d_src' = h.src
                         /\ d_src_offset' = h.off
                         /\ d_src_left' = data.size - chunk_header_size
                         /\ header_value' = le_to_cpu(h.bytes)
                         /\ dstream' = 0
                         /\ d_out' = NoResult
                         /\ d_pc' = "chunks"

\* One turn of the loop over the intermediate chunks.  `beyond` is what
\* the call comes to when it reads beyond the input.
decompress_intermediate(beyond) ==
    /\ d_pc = "chunks"
    /\ ~has_last_chunk_flag(header_value)
    /\ LET n == header_value.n
           c == copy_src(d_in.bufs, d_src, d_src_offset, n)
           r == LZ4_decompress_safe_continue(dstream, c.bytes, chunk_size)
           h == copy_src(d_in.bufs, c.src, c.off, chunk_header_size)
           left == src_left_minus(d_src_left, n)
       IN  /\ total_size' = total_size + chunk_size
           /\ chunk_buffer_size' = Max(chunk_buffer_size, n)
           /\ IF c.past
              THEN /\ decompress_throw(beyond)
                   /\ d_src' = c.src
                   /\ d_src_offset' = c.off
                   /\ d_src_left' = left
                   /\ d_dst_buffers' = Append(d_dst_buffers, temporary_buffer(chunk_size))
                   /\ UNCHANGED <<header_value, dstream>>
              ELSE IF r < 0
              THEN /\ decompress_throw("decompression failure")
                   /\ d_src' = c.src
                   /\ d_src_offset' = c.off
                   /\ d_src_left' = left
                   /\ d_dst_buffers' = Append(d_dst_buffers, temporary_buffer(chunk_size))
                   /\ UNCHANGED <<header_value, dstream>>
              ELSE IF h.past
              THEN /\ decompress_throw(beyond)
                   /\ d_src' = h.src
                   /\ d_src_offset' = h.off
                   /\ d_src_left' = src_left_minus(left, chunk_header_size)
                   /\ d_dst_buffers' = Append(d_dst_buffers,
                        Write(temporary_buffer(chunk_size), 0, LZ4_decoded(c.bytes)))
                   /\ dstream' = dstream + r
                   /\ UNCHANGED header_value
              ELSE /\ d_dst_buffers' = Append(d_dst_buffers,
                        Write(temporary_buffer(chunk_size), 0, LZ4_decoded(c.bytes)))
                   /\ dstream' = dstream + r
                   /\ d_src' = h.src
                   /\ d_src_offset' = h.off
                   /\ d_src_left' = src_left_minus(left, chunk_header_size)
                   /\ header_value' = le_to_cpu(h.bytes)
                   /\ UNCHANGED <<d_pc, d_out>>
    /\ UNCHANGED <<d_in, d_reset>>

\* The last chunk and the return.
decompress_last(beyond) ==
    /\ d_pc = "chunks"
    /\ has_last_chunk_flag(header_value)
    /\ LET size == clear_last_chunk_flag(header_value)
           c == copy_src(d_in.bufs, d_src, d_src_offset, d_src_left)
           r == LZ4_decompress_safe_continue(dstream, c.bytes, size)
       IN  /\ total_size' = total_size + size
           /\ chunk_buffer_size' = Max(chunk_buffer_size, d_src_left)
           /\ d_pc' = "done"
           /\ d_src' = c.src
           /\ d_src_offset' = c.off
           /\ d_src_left' = src_left_minus(d_src_left, d_src_left)
           /\ IF c.past
              THEN /\ decompress_throw(beyond)
                   /\ UNCHANGED <<d_dst_buffers, dstream>>
              ELSE IF r < 0
              THEN /\ decompress_throw("decompression failure")
                   /\ d_dst_buffers' = Append(d_dst_buffers, temporary_buffer(size))
                   /\ UNCHANGED dstream
              ELSE LET bufs == Append(d_dst_buffers,
                                   Write(temporary_buffer(size), 0, LZ4_decoded(c.bytes)))
                   IN  /\ d_dst_buffers' = bufs
                       /\ dstream' = dstream + r
                       /\ d_out' = Result("ok", decompress_return(bufs, total_size + size))
    /\ UNCHANGED <<d_in, d_reset, header_value>>

(***************************************************************************)
(* Tasks, the task queue, promises and futures (one shard)                  *)
(***************************************************************************)
Values == {41, 42}

Tasks == 1..NumTasks

AllTasks == 1..(NumTasks + NumCoros)

Coros == 1..NumCoros

Promises == 1..NumPromises

Futures == 1..(NumPromises + NumCoros)

\* promise_type is a task: the task that coroutine c's promise object is.
promise_task(c) == NumTasks + c

IsCoroTask(t) == t > NumTasks

\* The coroutine whose promise object the task t is
\* (coroutine_handle::from_promise(*this)).
from_promise(t) == t - NumTasks

\* The shared state of a promise/future pair.  `promise` is "none" (no pair
\* yet), "unset", "set" or "broken" (destroyed unset); `task` is the
\* continuation slot (0 = empty); `moved` tells that the future object was
\* moved into an awaiter; `cont` is the continuation that was attached to
\* the future (0 = never) and `invoked` counts its invocations.
FutureState(promise, ready, value, exc, task, moved) ==
    [promise |-> promise, ready |-> ready, value |-> value, exc |-> exc,
     task |-> task, moved |-> moved, cont |-> 0, invoked |-> 0]

\* What a future yields when consumed: a value or an exception.
Outcome(value, exc) == [value |-> value, exc |-> exc]

NoOutcome == Outcome(0, "none")

\* An entry of the queue: a task, and whether it was enqueued as urgent.
Entry(t, urgent) == [task |-> t, urgent |-> urgent]

\* What the log keeps of a task: how often it was handed to the scheduler,
\* and how often the scheduler invoked run_and_dispose and dispose on it.
Counts(handed, runs, disposes) ==
    [handed |-> handed, runs |-> runs, disposes |-> disposes]

\* The queue (head first) and the log.
Sched(q, lg) == [queue |-> q, log |-> lg]

\* schedule(t): enqueue at the tail.
schedule(sc, t) ==
    Sched(Append(sc.queue, Entry(t, FALSE)),
          [sc.log EXCEPT ![t].handed = @ + 1])

\* schedule_urgent(t): enqueue at the head.
schedule_urgent(sc, t) ==
    Sched(<<Entry(t, TRUE)>> \o sc.queue,
          [sc.log EXCEPT ![t].handed = @ + 1])

\* The scheduler invokes run_and_dispose on the task t.
ran(lg, t) == [lg EXCEPT ![t].runs = @ + 1]

\* dispose was invoked on the task t.
disposed(lg, t) == [lg EXCEPT ![t].disposes = @ + 1]

deleter_dropping(lg, t) == lg
\* task::deleter: a task pointer that is dropped disposes of its task.
deleter(lg, t) == disposed(lg, t)

\* future::available()
available(fs, f) == fs[f].ready

\* future::get(): the outcome a ready future holds.
get(fs, f) == Outcome(fs[f].value, fs[f].exc)

\* future::get() is destructive: the future is empty afterwards.
taken(fs, f) ==
    [fs EXCEPT ![f] = [@ EXCEPT !.ready = FALSE, !.value = 0, !.exc = "none"]]

\* future::set_coroutine(task): the task goes into the continuation slot.
set_coroutine(fs, f, t) == [fs EXCEPT ![f] = [@ EXCEPT !.task = t]]

\* The shared state becomes ready with an outcome; the continuation slot is
\* emptied (its task is scheduled, see wake).
resolve(fs, f, how, value, exc) ==
    [fs EXCEPT ![f] = [@ EXCEPT !.promise = how, !.ready = TRUE,
                                !.value = value, !.exc = exc, !.task = 0]]

\* The continuation attached to f, if any, is enqueued (urgent, so that
\* completion callbacks run promptly).
wake(sc, fs, f) ==
    IF fs[f].task # 0 THEN schedule_urgent(sc, fs[f].task) ELSE sc

\* promise::set_value(v)
set_value(fs, f, v) == resolve(fs, f, "set", v, "none")

\* promise::set_exception(e)
set_exception(fs, f, e) == resolve(fs, f, "set", 0, e)

\* ~promise(): a promise destroyed before it was set leaves its future
\* ready with a broken-promise exception.
destroy_promise(fs, f) ==
    IF fs[f].promise = "unset" THEN resolve(fs, f, "broken", 0, "broken_promise")
    ELSE fs

(***************************************************************************)
(* Coroutines: promise_type and awaiter                                     *)
(***************************************************************************)
\* A coroutine frame: `state` is "unborn", "running", "suspended" or "done"
\* (frame destroyed); `awaited` is the future held by the awaiter of the
\* current suspension; `got` is what the last co_await yielded; `awaits`,
\* `suspends` and `destroyed` count the co_awaits, the suspensions and the
\* destructions of the frame; `thrown` is the exception that left the body.
CoroFrame(state, awaited, got, awaits, suspends, destroyed) ==
    [state |-> state, awaited |-> awaited, got |-> got, awaits |-> awaits,
     suspends |-> suspends, destroyed |-> destroyed, thrown |-> "none"]

\* promise_type::get_return_object(): the future of the coroutine's promise.
get_return_object(c) == NumPromises + c

\* promise_type::initial_suspend() and final_suspend() return suspend_never:
\* the coroutine does not suspend there.
initial_suspend_always == TRUE
initial_suspend == FALSE

final_suspend_always == TRUE
final_suspend == FALSE

\* promise_type::return_value(v)
return_value(fs, c, v) == set_value(fs, get_return_object(c), v)

unhandled_exception_lost(fs, c, e) == set_exception(fs, get_return_object(c), "none")
\* promise_type::unhandled_exception()
unhandled_exception(fs, c, e) == set_exception(fs, get_return_object(c), e)

await_ready_never(fs, f) == FALSE
\* awaiter::await_ready()
await_ready(fs, f) == available(fs, f)

await_suspend_unattached(fs, f, c) == fs
\* awaiter::await_suspend(handle): the coroutine's promise object goes into
\* the future's continuation slot as a task.
await_suspend(fs, f, c) == set_coroutine(fs, f, promise_task(c))

\* awaiter::await_resume()
await_resume(fs, f) == get(fs, f)

\* The coroutine frame is destroyed, and with it the promise object.
destroy_frame(cs, c) ==
    [cs EXCEPT ![c] = [@ EXCEPT !.state = "done", !.awaited = 0,
                                !.destroyed = @ + 1]]

\* The body finished (co_return or exception): the outcome is in the
\* returned future, the continuation attached to it is scheduled, and since
\* final_suspend does not suspend the frame is destroyed.
finish(fs, cs, c) ==
    LET ret == get_return_object(c)
        sc  == wake(Sched(queue, log), futures, ret)
    IN  /\ futures' = destroy_promise(fs, ret)
        /\ queue' = sc.queue
        /\ log' = sc.log
        /\ coros' = IF final_suspend THEN [cs EXCEPT ![c].state = "suspended"]
                    ELSE destroy_frame(cs, c)
        /\ active' = 0
        /\ UNCHANGED stopping

\* The coroutine is called: the return object is made, and since
\* initial_suspend does not suspend the body starts running at once.
start_coroutine(c) ==
    /\ futures' = [futures EXCEPT ![get_return_object(c)] =
                       FutureState("unset", FALSE, 0, "none", 0, FALSE)]
    /\ coros' = [coros EXCEPT ![c].state =
                     IF initial_suspend THEN "suspended" ELSE "running"]
    /\ active' = IF initial_suspend THEN 0 ELSE c
    /\ UNCHANGED <<queue, log, stopping>>

co_await_attached_running(c, f) ==
    /\ futures' = [await_suspend(futures, f, c) EXCEPT
                       ![f].moved = TRUE, ![f].cont = promise_task(c)]
    /\ coros' = [coros EXCEPT ![c] = [@ EXCEPT !.awaited = f, !.awaits = @ + 1,
                                              !.suspends = @ + 1]]
    /\ UNCHANGED <<active, queue, log, stopping>>

\* co_await f in the body of c (operator co_await makes the awaiter, which
\* takes the future by value).
co_await(c, f) ==
    IF await_ready(futures, f)
    THEN /\ coros' = [coros EXCEPT ![c] = [@ EXCEPT !.got = await_resume(futures, f),
                                                   !.awaits = @ + 1]]
         /\ futures' = [taken(futures, f) EXCEPT ![f].moved = TRUE]
         /\ UNCHANGED <<active, queue, log, stopping>>
    ELSE /\ futures' = [await_suspend(futures, f, c) EXCEPT
                            ![f].moved = TRUE, ![f].cont = promise_task(c)]
         /\ coros' = [coros EXCEPT ![c] = [@ EXCEPT !.state = "suspended",
                                                   !.awaited = f,
                                                   !.awaits = @ + 1,
                                                   !.suspends = @ + 1]]
         /\ active' = 0
         /\ UNCHANGED <<queue, log, stopping>>

run_and_dispose_idle(c) ==
    /\ coros[c].state = "suspended"
    /\ UNCHANGED <<coros, futures, active>>

\* promise_type::run_and_dispose(): handle.resume().  The coroutine goes on
\* after its co_await, whose value is await_resume().
run_and_dispose(c) ==
    LET f == coros[c].awaited
    IN  /\ coros[c].state = "suspended"
        /\ coros' = [coros EXCEPT ![c] = [@ EXCEPT !.state = "running",
                                                   !.awaited = 0,
                                                   !.got = await_resume(futures, f)]]
        /\ futures' = [taken(futures, f) EXCEPT ![f].invoked = @ + 1]
        /\ active' = c

dispose_leaking(c, sc) ==
    /\ coros[c].state = "suspended"
    /\ queue' = sc.queue
    /\ log' = sc.log
    /\ UNCHANGED <<coros, futures, active>>

dispose_resuming(c, sc) ==
    /\ run_and_dispose(c)
    /\ queue' = sc.queue
    /\ log' = sc.log

\* promise_type::dispose(): handle.destroy().  The frame is destroyed
\* without being resumed; the promise inside it was never set.
dispose(c, sc) ==
    LET ret == get_return_object(c)
        sc2 == wake(sc, futures, ret)
    IN  /\ coros[c].state = "suspended"
        /\ coros' = destroy_frame(coros, c)
        /\ futures' = destroy_promise(futures, ret)
        /\ queue' = sc2.queue
        /\ log' = sc2.log
        /\ active' = 0

CoroInit ==
    /\ futures = [f \in Futures |->
                     IF f \in Promises
                     THEN FutureState("unset", FALSE, 0, "none", 0, FALSE)
                     ELSE FutureState("none", FALSE, 0, "none", 0, FALSE)]
    /\ coros = [c \in Coros |-> CoroFrame("unborn", 0, NoOutcome, 0, 0, 0)]
    /\ active = 0
    /\ queue = <<>>
    /\ log = [t \in AllTasks |-> Counts(0, 0, 0)]
    /\ stopping = FALSE

CompressCall ==
    \E hs \in HeadSpaces, n \in InputSizes, vector \in BOOLEAN :
        /\ vector => (0 < n /\ n <= chunk_size)
        /\ d_pc = "idle"
        /\ compress_call(hs, MakeSndBuf(n, vector))
        /\ UNCHANGED decompressVars

CompressIntermediate ==
    /\ \E csize \in CompressedSizes(chunk_size) : compress_intermediate(csize)
    /\ UNCHANGED decompressVars

CompressLast ==
    /\ \E csize \in CompressedSizes(c_src_left) : compress_last(csize)
    /\ UNCHANGED decompressVars

\* The receiver decompresses what reached it of the frame compress
\* returned.  decompress is given the frame without its head space, so the
\* frames made with no head space stand for all.
DecompressCall ==
    /\ c_pc = "done"
    /\ head_space = 0
    /\ d_pc = "idle"
    /\ \E damage \in Damages, vector \in BOOLEAN, reset_ok \in BOOLEAN :
           decompress_call(MakeRcvBuf(Received(SentFrame, damage), vector), reset_ok)
    /\ UNCHANGED compressVars

DecompressIntermediate ==
    /\ \E beyond \in BeyondOutcomes : decompress_intermediate(beyond)
    /\ UNCHANGED compressVars

\* The calls have returned (a frame may never be decompressed in this
\* thread) and the caller has dropped the buffers: what is left of the
\* frame is what the thread-local objects retain (the two LZ4 streams, the
\* scratch area and the chunk buffer).
FrameDone ==
    /\ c_pc = "done"
    /\ d_pc \in {"idle", "done"}
    /\ c_pc' = "idle"
    /\ c_in' = NoBuf
    /\ head_space' = 0
    /\ c_src' = 1
    /\ c_src_left' = 0
    /\ dst_buffers' = <<>>
    /\ dst_offset' = 0
    /\ total_compressed_size' = 0
    /\ c_out' = NoBuf
    /\ d_pc' = "idle"
    /\ d_in' = NoBuf
    /\ d_reset' = TRUE
    /\ d_src' = 1
    /\ d_src_left' = 0
    /\ d_src_offset' = 0
    /\ header_value' = Header(FALSE, 0)
    /\ d_dst_buffers' = <<>>
    /\ total_size' = 0
    /\ d_out' = NoResult
    /\ UNCHANGED <<chunk_data, cstream, chunk_buffer_size, dstream>>

DecompressLast ==
    /\ \E beyond \in BeyondOutcomes : decompress_last(beyond)
    /\ UNCHANGED compressVars

Alloc ==
    \E size \in AllocSizes : alloc(size) /\ UNCHANGED <<codecVars, coroVars>>

Free ==
    \E o \in BagToSet(live) : free(o) /\ UNCHANGED <<codecVars, coroVars>>

Teardown == teardown /\ UNCHANGED <<codecVars, coroVars>>

\* A task that was not handed over yet (a task object is owned by one
\* place at a time and deletes itself when run).  Closure tasks are
\* interchangeable, so they are made in the order of their numbers.
Fresh(t) ==
    /\ log[t].handed = 0
    /\ \A u \in Tasks : u < t => log[u].handed > 0

Schedule(t) ==
    /\ ~stopping /\ active = 0 /\ Fresh(t)
    /\ LET sc == schedule(Sched(queue, log), t)
       IN  queue' = sc.queue /\ log' = sc.log
    /\ UNCHANGED <<futures, coros, active, stopping>>

ScheduleUrgent(t) ==
    /\ ~stopping /\ active = 0 /\ Fresh(t)
    /\ LET sc == schedule_urgent(Sched(queue, log), t)
       IN  queue' = sc.queue /\ log' = sc.log
    /\ UNCHANGED <<futures, coros, active, stopping>>

\* The scheduler takes the task at the head of the queue and runs it.
RunTask ==
    /\ ~stopping /\ active = 0 /\ queue # <<>>
    /\ LET t == Head(queue).task
       IN  /\ queue' = Tail(queue)
           /\ log' = ran(log, t)
           /\ IF IsCoroTask(t) THEN run_and_dispose(from_promise(t))
              ELSE UNCHANGED <<futures, coros, active>>
    /\ UNCHANGED stopping

\* The scheduler shuts down.
Stop ==
    /\ ~stopping /\ active = 0
    /\ stopping' = TRUE
    /\ UNCHANGED <<futures, coros, active, queue, log>>

\* The scheduler drops the task at the head of the queue without running it.
DisposeTask ==
    /\ stopping /\ queue # <<>>
    /\ LET t == Head(queue).task
           sc == Sched(Tail(queue), deleter(log, t))
       IN  IF IsCoroTask(t) THEN dispose(from_promise(t), sc)
           ELSE /\ queue' = sc.queue
                /\ log' = sc.log
                /\ UNCHANGED <<futures, coros, active>>
    /\ UNCHANGED stopping

StartCoro(c) ==
    /\ ~stopping /\ active = 0 /\ coros[c].state = "unborn"
    /\ \A d \in Coros : d < c => coros[d].state # "unborn"
    /\ start_coroutine(c)

CoAwait(c, f) ==
    /\ active = c /\ coros[c].awaits < MaxAwaits
    /\ f # get_return_object(c)
    /\ futures[f].promise # "none" /\ ~futures[f].moved
    /\ co_await(c, f)

Return(c, v) ==
    /\ active = c
    /\ finish(return_value(futures, c, v), coros, c)

\* An exception leaves the body: one the body throws, or the one the last
\* co_await raised.
Throw(c, e) ==
    /\ active = c
    /\ e \in {"e", coros[c].got.exc} \ {"none"}
    /\ finish(unhandled_exception(futures, c, e),
              [coros EXCEPT ![c].thrown = e], c)

SetValue(p, v) ==
    /\ ~stopping /\ active = 0 /\ futures[p].promise = "unset"
    /\ futures' = set_value(futures, p, v)
    /\ LET sc == wake(Sched(queue, log), futures, p)
       IN  queue' = sc.queue /\ log' = sc.log
    /\ UNCHANGED <<coros, active, stopping>>

SetException(p) ==
    /\ ~stopping /\ active = 0 /\ futures[p].promise = "unset"
    /\ futures' = set_exception(futures, p, "e")
    /\ LET sc == wake(Sched(queue, log), futures, p)
       IN  queue' = sc.queue /\ log' = sc.log
    /\ UNCHANGED <<coros, active, stopping>>

DestroyPromise(p) ==
    /\ active = 0 /\ futures[p].promise = "unset"
    /\ futures' = destroy_promise(futures, p)
    /\ LET sc == wake(Sched(queue, log), futures, p)
       IN  queue' = sc.queue /\ log' = sc.log
    /\ UNCHANGED <<coros, active, stopping>>


AllocNext == Alloc \/ Free \/ Teardown

CodecNext ==
    \/ CompressCall /\ UNCHANGED <<allocVars, coroVars>>
    \/ CompressIntermediate /\ UNCHANGED <<allocVars, coroVars>>
    \/ CompressLast /\ UNCHANGED <<allocVars, coroVars>>
    \/ DecompressCall /\ UNCHANGED <<allocVars, coroVars>>
    \/ DecompressIntermediate /\ UNCHANGED <<allocVars, coroVars>>
    \/ DecompressLast /\ UNCHANGED <<allocVars, coroVars>>
    \/ FrameDone /\ UNCHANGED <<allocVars, coroVars>>

CoroNext ==
    \/ (\E t \in Tasks : Schedule(t)) /\ UNCHANGED <<allocVars, codecVars>>
    \/ (\E t \in Tasks : ScheduleUrgent(t)) /\ UNCHANGED <<allocVars, codecVars>>
    \/ RunTask /\ UNCHANGED <<allocVars, codecVars>>
    \/ Stop /\ UNCHANGED <<allocVars, codecVars>>
    \/ DisposeTask /\ UNCHANGED <<allocVars, codecVars>>
    \/ (\E c \in Coros : StartCoro(c)) /\ UNCHANGED <<allocVars, codecVars>>
    \/ (\E c \in Coros, f \in Futures : CoAwait(c, f)) /\ UNCHANGED <<allocVars, codecVars>>
    \/ (\E c \in Coros, v \in Values : Return(c, v)) /\ UNCHANGED <<allocVars, codecVars>>
    \/ (\E c \in Coros, e \in {"e", "broken_promise"} : Throw(c, e)) /\ UNCHANGED <<allocVars, codecVars>>
    \/ (\E p \in Promises, v \in Values : SetValue(p, v)) /\ UNCHANGED <<allocVars, codecVars>>
    \/ (\E p \in Promises : SetException(p)) /\ UNCHANGED <<allocVars, codecVars>>
    \/ (\E p \in Promises : DestroyPromise(p)) /\ UNCHANGED <<allocVars, codecVars>>

Init == AllocInit /\ CompressInit /\ DecompressInit /\ CoroInit

Next == AllocNext \/ CodecNext \/ CoroNext

AllocSpec == Init /\ [][AllocNext]_vars

CodecSpec == Init /\ [][CodecNext]_vars

CoroSpec == Init /\ [][CoroNext]_vars

\* A step of the body of the coroutine that is running.
BodyStep ==
    \E c \in Coros :
        \/ \E f \in Futures : CoAwait(c, f)
        \/ \E v \in Values : Return(c, v)
        \/ \E e \in {"e", "broken_promise"} : Throw(c, e)

\* The scheduler keeps running: it is not stopped, and it runs every task
\* that is queued; a body that is running goes on.
ResumeNext ==
    \/ (\E t \in Tasks : Schedule(t)) /\ UNCHANGED <<allocVars, codecVars>>
    \/ RunTask /\ UNCHANGED <<allocVars, codecVars>>
    \/ (\E c \in Coros : StartCoro(c)) /\ UNCHANGED <<allocVars, codecVars>>
    \/ BodyStep /\ UNCHANGED <<allocVars, codecVars>>
    \/ (\E p \in Promises, v \in Values : SetValue(p, v)) /\ UNCHANGED <<allocVars, codecVars>>
    \/ (\E p \in Promises : SetException(p)) /\ UNCHANGED <<allocVars, codecVars>>
    \/ (\E p \in Promises : DestroyPromise(p)) /\ UNCHANGED <<allocVars, codecVars>>

ResumeSpec ==
    /\ Init
    /\ [][ResumeNext]_vars
    /\ WF_vars(RunTask /\ UNCHANGED <<allocVars, codecVars>>)
    /\ WF_vars(BodyStep /\ UNCHANGED <<allocVars, codecVars>>)

Spec == Init /\ [][Next]_vars

(***************************************************************************)
(* temporary_memory_allocator: properties                                  *)
(***************************************************************************)
LiveObjs == BagToSet(live)

Closed(r) == r.base # current

\* C1 (allocator conservation): once the allocator is torn down after every
\* pointer returned by alloc was freed, every block obtained from the system
\* (the still open block included) has been returned to the system.
C1_Conservation ==
    (phase = "destroyed" /\ live = EmptyBag) => heap = {}

\* C2 (pointer-to-header): every pointer alloc returned, rounded down to a
\* multiple of block_size, is the header of the block whose counter counts
\* the allocation, and that block is held.
C2_PointerToHeader ==
    \A o \in LiveObjs :
        /\ o.blk \notin {nullptr, ReturnedBlock, ReturnedLarge}
        /\ free_header(o.p) = o.blk
        /\ RegionAt(o.blk) # {}

\* C3 (alignment): a pointer returned by alloc(s) with s <= max_object_size
\* has its offset in the block within [sizeof(header), block_size - s] and is
\* a multiple of the alignment.
C3_Alignment ==
    (last.op = "alloc" /\ ~last.threw /\ last.size <= max_object_size) =>
        /\ last.ret % block_size >= header_size
        /\ last.ret % block_size <= block_size - last.size
        /\ last.ret % alignment = 0

\* C4 (block reclamation): a closed bump block is held exactly as long as an
\* object allocated from it is live: it is not returned while one of its
\* objects is live, and it is not held once the last of them was freed
\* (in every state reached without undefined behaviour).
C4_Reclamation ==
    ~ub =>
        /\ \A o \in LiveObjs : o.blk # ReturnedBlock
        /\ \A r \in heap : (r.kind = "bump" /\ Closed(r)) =>
                               \E o \in LiveObjs : o.blk = r.base

\* C5 (alloc never returns null): alloc either throws or returns a non-null
\* pointer into a region obtained from the system.
C5_NeverNull ==
    (last.op = "alloc" /\ ~last.threw) =>
        /\ last.ret # nullptr
        /\ \E r \in heap : r.base <= last.ret /\ last.ret < r.base + r.size

\* C6 (large-object path): alloc(size) takes the large-object path exactly
\* when size > max_object_size; a large object has a dedicated region whose
\* header count is 1 and whose first byte after the header is the returned
\* pointer; the region is held while the object is live and is returned by
\* the free of the object (in every state reached without undefined
\* behaviour).
C6_LargeObjectPath ==
    ub \/
    /\ last.op = "alloc" => (last.path = "large" <=> last.size > max_object_size)
    /\ (last.op = "alloc" /\ last.path = "large" /\ ~last.threw) =>
           \E r \in heap : /\ r.base + header_size = last.ret
                           /\ r.kind = "large"
                           /\ r.size = header_size + last.size
    /\ \A o \in LiveObjs : o.size > max_object_size =>
           /\ o.blk # ReturnedLarge
           /\ live[o] = 1
    /\ \A r \in heap : r.kind = "large" =>
           /\ r.use_count = 1
           /\ \E o \in LiveObjs : o.blk = r.base /\ o.p = r.base + header_size
           /\ \A o \in LiveObjs : o.blk = r.base => o.size > max_object_size

\* C7 (sign of the header counter): the header counter of the open block is
\* never positive, and the header counter of a closed block that is still
\* held is strictly positive (in every state reached without undefined
\* behaviour).
C7_CounterSigns ==
    ub \/
    /\ current # nullptr => OpenBlock.use_count <= 0
    /\ \A r \in heap : Closed(r) => r.use_count > 0

(***************************************************************************)
(* lz4_fragmented_compressor: properties                                    *)
(***************************************************************************)
Message == Norm(<<In(0, c_in.size)>>)

\* A frame read as the wire format says: headers in sequence, each
\* intermediate header followed by as many bytes as its value, the last
\* header followed by the rest of the frame.  `ok` is FALSE when the bytes
\* end inside a header or a chunk, or a header is not made of written bytes.
RECURSIVE ParseFrame(_)
ParseFrame(bytes) ==
    IF BLen(bytes) < chunk_header_size THEN [ok |-> FALSE, chunks |-> <<>>]
    ELSE LET hb == BTake(bytes, chunk_header_size)
             rest == BDrop(bytes, chunk_header_size)
             h == le_to_cpu(hb)
         IN  IF Len(hb) # 4 \/ \E i \in 1..Len(hb) : hb[i].t # "b"
             THEN [ok |-> FALSE, chunks |-> <<>>]
             ELSE IF h.last
             THEN [ok |-> TRUE, chunks |-> <<[hdr |-> h, body |-> Norm(rest)]>>]
             ELSE IF h.n > BLen(rest) THEN [ok |-> FALSE, chunks |-> <<>>]
             ELSE LET more == ParseFrame(BDrop(rest, h.n))
                  IN  [ok |-> more.ok,
                       chunks |-> <<[hdr |-> h, body |-> Norm(BTake(rest, h.n))]>>
                                  \o more.chunks]

Frame == ParseFrame(SentFrame)

\* `body` is one whole LZ4 block.
WholeBlock(body) ==
    /\ Len(body) = 1
    /\ body[1].t = "z" /\ body[1].lo = 0 /\ body[1].hi = body[1].n

\* The message bytes a whole block was made of.
Covered(body) == body[1].b - body[1].a

IntermediatesOf(f) == {i \in 1..Len(f.chunks) : ~f.chunks[i].hdr.last}

Intermediates == IntermediatesOf(Frame)

\* C8 (round trip): for a message given as one buffer or as buffers of
\* chunk_size, compressed with no head space, decompress (whose stream
\* reset went well), given the frame as it was sent, returns the message:
\* the same size and the same bytes in order.
C8_RoundTrip ==
    (/\ d_pc = "done" /\ head_space = 0 /\ d_out.status # "reset failed"
     /\ Norm(Concat(d_in.bufs)) = Norm(SentFrame)) =>
        /\ d_out.status = "ok"
        /\ d_out.buf.size = c_in.size
        /\ Norm(Concat(d_out.buf.bufs)) = Message

\* A message of more than one chunk went through the general path of
\* compress and of decompress and came back.
C8_Witness ==
    /\ d_pc = "done" /\ head_space = 0 /\ d_out.status = "ok"
    /\ Norm(Concat(d_in.bufs)) = Norm(SentFrame)
    /\ c_in.size = 2 * chunk_size + 1
    /\ ~c_out.single /\ ~d_in.single /\ ~d_out.buf.single
    /\ Norm(Concat(d_out.buf.bufs)) = Message

\* C9 (chunk framing): behind the head space a frame is zero or more
\* intermediate chunks (bit 31 clear, value = size of the block that
\* follows) and then exactly one last chunk (bit 31 set, value = the
\* decompressed size of its block), which ends the frame.
C9_Framing ==
    c_pc = "done" =>
        LET f == Frame
        IN  /\ BLen(Concat(c_out.bufs)) >= head_space
            /\ f.ok
            /\ Len(f.chunks) >= 1
            /\ \A i \in 1..Len(f.chunks) :
                   LET ch == f.chunks[i]
                   IN  /\ ch.hdr.last <=> i = Len(f.chunks)
                       /\ WholeBlock(ch.body)
                       /\ ~ch.hdr.last => ch.hdr.n = BLen(ch.body)
                       /\ ch.hdr.last => ch.hdr.n = Covered(ch.body)

\* A frame with head space and two intermediate chunks before the last.
C9_Witness ==
    /\ c_pc = "done" /\ head_space = 8
    /\ Frame.ok /\ Len(Frame.chunks) = 3
    /\ ~Frame.chunks[1].hdr.last /\ ~Frame.chunks[2].hdr.last
    /\ Frame.chunks[3].hdr.last

\* C10 (chunk count): a message of n bytes makes
\* max(0, ceil(n / chunk_size) - 1) intermediate chunks, the i-th made of
\* the i-th chunk_size bytes of the message, and one last chunk whose
\* header value is n less the bytes of the intermediate chunks; that value
\* is chunk_size when n is a positive multiple of chunk_size, and the bytes
\* of all chunks add up to n.
C10_ChunkCount ==
    c_pc = "done" =>
        LET n == c_in.size
            f == Frame
            k == Cardinality(IntermediatesOf(f))
            lastc == f.chunks[Len(f.chunks)]
        IN  /\ f.ok
            /\ k = Max(0, (n + chunk_size - 1) \div chunk_size - 1)
            /\ Len(f.chunks) = k + 1
            /\ \A i \in 1..k :
                   /\ ~f.chunks[i].hdr.last
                   /\ WholeBlock(f.chunks[i].body)
                   /\ f.chunks[i].body[1].a = (i - 1) * chunk_size
                   /\ f.chunks[i].body[1].b = i * chunk_size
            /\ lastc.hdr.last
            /\ lastc.hdr.n = n - k * chunk_size
            /\ (n > 0 /\ n % chunk_size = 0) => lastc.hdr.n = chunk_size
            /\ k * chunk_size + lastc.hdr.n = n

\* A message of exactly three chunks: two intermediate chunks and a last
\* chunk of chunk_size.
C10_Witness ==
    /\ c_pc = "done" /\ c_in.size = 3 * chunk_size
    /\ Frame.ok /\ Cardinality(Intermediates) = 2
    /\ Frame.chunks[3].hdr = Header(TRUE, chunk_size)

\* Bytes no one wrote since the buffer was allocated.
Unwritten(bytes) == \A i \in 1..Len(bytes) : bytes[i].t = "u"

\* Bytes of headers and of LZ4 blocks.
Written(bytes) == \A i \in 1..Len(bytes) : bytes[i].t \in {"b", "z"}

\* C11 (head-space preservation): for head_space <= chunk_size - 4 compress
\* writes nothing into the first head_space bytes of the first output
\* buffer, during the call and in what it returns, and the first chunk
\* header is written at offset head_space of that buffer.
C11_HeadSpace ==
    head_space <= chunk_size - 4 =>
        /\ c_pc = "chunks" =>
               /\ BLen(dst_buffers[1]) >= head_space
               /\ Unwritten(BTake(dst_buffers[1], head_space))
        /\ c_pc = "done" =>
               LET first == c_out.bufs[1]
                   header == BTake(BDrop(first, head_space), chunk_header_size)
               IN  /\ BLen(first) >= head_space + chunk_header_size
                   /\ Unwritten(BTake(first, head_space))
                   /\ BLen(header) = chunk_header_size
                   /\ \A i \in 1..Len(header) : header[i].t = "b"

\* compress returned a frame of several buffers whose first buffer holds
\* the largest head space of the range, untouched, and then the header.
C11_Witness ==
    /\ c_pc = "done" /\ head_space = chunk_size - 4
    /\ Len(c_out.bufs) > 1
    /\ Unwritten(BTake(c_out.bufs[1], head_space))
    /\ Written(BDrop(c_out.bufs[1], head_space))

\* C12 (framing determinism): the bytes compress writes are made of the
\* message and the head space alone: behind the head space every byte of
\* the frame is a header byte or a byte of an LZ4 block, no byte comes from
\* what the scratch area held or was never written, and every block was
\* made with the stream holding the bytes of this message that precede the
\* block's own and nothing of an earlier frame.
C12_Determinism ==
    c_pc = "done" =>
        LET f == Frame
        IN  /\ Written(SentFrame)
            /\ f.ok
            /\ \A i \in 1..Len(f.chunks) :
                   /\ WholeBlock(f.chunks[i].body)
                   /\ f.chunks[i].body[1].c = f.chunks[i].body[1].a

\* A frame of several chunks compressed in a thread whose streams hold the
\* history of an earlier, non-empty frame.
C12_Witness ==
    /\ c_pc = "done" /\ d_pc = "idle" /\ dstream > 0
    /\ Frame.ok /\ Len(Frame.chunks) >= 2
    /\ \A i \in 1..Len(Frame.chunks) :
           Frame.chunks[i].body[1].c = Frame.chunks[i].body[1].a

\* The chunks of the frame given to decompress.
GivenFrame == ParseFrame(Norm(Concat(d_in.bufs)))

\* LZ4 rejects a chunk of `chunks` from the i-th on, decoded in order with
\* `stream` bytes of history.
RECURSIVE Rejected(_, _, _)
Rejected(chunks, i, stream) ==
    IF i > Len(chunks) THEN FALSE
    ELSE LET ch == chunks[i]
             capacity == IF ch.hdr.last THEN ch.hdr.n ELSE chunk_size
             r == LZ4_decompress_safe_continue(stream, ch.body, capacity)
         IN  r < 0 \/ Rejected(chunks, i + 1, stream + r)

\* C13 (short input): decompress of an input shorter than 4 bytes fails
\* with an error; it returns no buffer, empty or not.
C13_ShortRejected ==
    (d_pc = "done" /\ d_in.size < 4) => d_out.status \notin {"ok", "none"}

\* C14 (decompression failure): when the stream reset fails, or LZ4 returns
\* a negative status for a chunk of the frame (the single chunk of the fast
\* path, an intermediate chunk, the last chunk), decompress ends with an
\* error and returns no buffer, however many chunks were decoded before.
C14_FailureHandling ==
    (d_pc = "done" /\ ~too_short(d_in.size)) =>
        LET f == GivenFrame
        IN  /\ ~d_reset => d_out = Result("reset failed", NoBuf)
            /\ (d_reset /\ f.ok /\ Rejected(f.chunks, 1, 0)) =>
                   d_out = Result("decompression failure", NoBuf)

\* decompress failed at an intermediate chunk after it had decoded one.
C14_Witness ==
    /\ d_pc = "done" /\ d_reset
    /\ d_out = Result("decompression failure", NoBuf)
    /\ ~has_last_chunk_flag(header_value)
    /\ dstream = chunk_size

\* How many entries of the queue hold the task t.
Queued(t) == Cardinality({i \in 1..Len(queue) : queue[i].task = t})

\* How many continuation slots hold the task t.
InSlot(t) == Cardinality({f \in Futures : futures[f].task = t})

HasValue(st) == st.value # 0

HasException(st) == st.exc # "none"

\* C15 (future atomicity): a future is available exactly when its shared
\* state holds one outcome, a value or an exception, never both and never
\* neither; an outcome that was set is not replaced by another, and a
\* shared state that was resolved is not resolved again.
C15_FutureAtomicity ==
    /\ [](\A f \in Futures :
            /\ available(futures, f) <=>
                   (HasValue(futures[f]) \/ HasException(futures[f]))
            /\ ~(HasValue(futures[f]) /\ HasException(futures[f])))
    /\ [][\A f \in Futures :
            /\ (futures[f].ready /\ futures'[f].ready) =>
                   get(futures', f) = get(futures, f)
            /\ (futures[f].promise \in {"set", "broken"} /\ ~futures[f].ready) =>
                   ~futures'[f].ready]_vars

\* A coroutine's future holds the exception the body threw, and the future
\* of a promise holds a value.
C15_Witness ==
    /\ \E c \in Coros :
           /\ coros[c].thrown = "e"
           /\ futures[get_return_object(c)].ready
           /\ futures[get_return_object(c)].exc = "e"
    /\ \E p \in Promises : futures[p].ready /\ futures[p].value \in Values

\* C16 (exception capture): when an exception e leaves the body of a
\* coroutine, before any co_await or after suspensions and resumptions,
\* control is back with the caller or the scheduler, the returned future is
\* ready with e until it is consumed, and the frame was destroyed exactly
\* once.
C16_ExceptionCapture ==
    \A c \in Coros :
        /\ coros[c].destroyed <= 1
        /\ coros[c].thrown # "none" =>
               LET r == futures[get_return_object(c)]
               IN  /\ coros[c].state = "done"
                   /\ coros[c].destroyed = 1
                   /\ active # c
                   /\ r.promise = "set"
                   /\ r.ready => (r.exc = coros[c].thrown /\ r.value = 0)
                   /\ ~r.ready => r.moved

\* One coroutine threw before any co_await, another threw after it had been
\* suspended and resumed.
C16_Witness ==
    \E c \in Coros, d \in Coros :
        /\ coros[c].thrown = "e" /\ coros[c].awaits = 0
        /\ coros[d].thrown = "e" /\ coros[d].suspends >= 1
        /\ futures[get_return_object(d)].ready
        /\ futures[get_return_object(d)].exc = "e"

\* C17 (exactly-once continuation): a continuation attached to a future
\* stays in the continuation slot, unscheduled, while the future is
\* pending; once the future is ready (value, exception or broken promise)
\* the continuation is in the queue once, or was invoked once, or was
\* disposed of by the stopped scheduler; it is never invoked twice.
C17_ExactlyOnce ==
    \A f \in Futures :
        futures[f].cont # 0 =>
            LET st == futures[f]
                t == st.cont
                c == from_promise(t)
            IN  /\ st.invoked <= 1
                /\ st.promise = "unset" =>
                       /\ st.invoked = 0
                       /\ st.task = t
                       /\ coros[c].awaited = f
                       /\ Queued(t) = 0
                /\ st.promise # "unset" =>
                       /\ st.task = 0
                       /\ \/ st.invoked = 1 /\ coros[c].awaited # f
                          \/ /\ st.invoked = 0
                             /\ coros[c].awaited = f
                             /\ Queued(t) = 1
                          \/ /\ st.invoked = 0
                             /\ stopping
                             /\ coros[c].state = "done"
                             /\ log[t].disposes = 1

\* Continuations were invoked after a value was set and after a promise was
\* destroyed.
C17_Witness ==
    \E f \in Futures, g \in Futures :
        /\ futures[f].invoked = 1 /\ futures[f].promise = "set"
        /\ futures[g].invoked = 1 /\ futures[g].promise = "broken"

\* C18 (task ownership): every handover of a task to the scheduler is
\* answered by one run_and_dispose or one dispose, or the task is still in
\* the queue, once; every suspension of a coroutine put its task into a
\* continuation slot, from where it went to the scheduler once or where it
\* still is.
C18_TaskOwnership ==
    /\ \A t \in AllTasks :
           /\ Queued(t) <= 1
           /\ log[t].handed = log[t].runs + log[t].disposes + Queued(t)
    /\ \A t \in Tasks : log[t].handed <= 1
    /\ \A c \in Coros :
           /\ coros[c].suspends =
                  log[promise_task(c)].handed + InSlot(promise_task(c))
           /\ log[promise_task(c)].disposes <= 1
           /\ log[promise_task(c)].disposes = 1 => coros[c].state = "done"

\* Closure tasks and coroutine tasks were run, and others disposed of.
C18_Witness ==
    /\ \E t \in Tasks, u \in Tasks : log[t].runs = 1 /\ log[u].disposes = 1
    /\ \E c \in Coros, d \in Coros :
           /\ log[promise_task(c)].runs >= 1
           /\ log[promise_task(d)].disposes = 1
    /\ queue = <<>>

\* C19 (queue ordering): when the scheduler runs a closure task, no closure
\* task of the same class that was enqueued earlier is still queued, and no
\* urgent task is queued when a normal task runs.  Closure tasks are
\* enqueued in the order of their numbers.
C19_QueueOrdering ==
    [][\A t \in Tasks :
          log'[t].runs = log[t].runs + 1 =>
              \A i \in 2..Len(queue) :
                  /\ (queue[i].task \in Tasks /\ queue[i].urgent = queue[1].urgent) =>
                         t < queue[i].task
                  /\ ~queue[1].urgent => ~queue[i].urgent]_vars

\* C20 (broken promise): a promise destroyed unset, by its owner or with
\* the coroutine frame it lives in, leaves its future ready with the
\* broken-promise exception until it is consumed; a continuation attached
\* to the future left the slot and was enqueued as urgent, as for a value.
C20_BrokenPromise ==
    /\ \A f \in Futures :
           futures[f].promise = "broken" =>
               LET st == futures[f]
               IN  /\ st.ready => (st.exc = "broken_promise" /\ st.value = 0)
                   /\ ~st.ready => st.moved
                   /\ st.cont # 0 =>
                          /\ st.task = 0
                          /\ \/ st.invoked = 1
                             \/ \E i \in 1..Len(queue) :
                                    queue[i] = Entry(st.cont, TRUE)
                             \/ stopping /\ log[st.cont].disposes = 1
    /\ \A c \in Coros :
           log[promise_task(c)].disposes > 0 =>
               futures[get_return_object(c)].promise = "broken"

\* A coroutine was resumed with the broken promise of the future it awaited,
\* and the promise of a coroutine that was disposed of is broken.
C20_Witness ==
    \E p \in Promises, c \in Coros :
        /\ futures[p].promise = "broken" /\ futures[p].invoked = 1
        /\ log[promise_task(c)].disposes = 1
        /\ futures[get_return_object(c)].promise = "broken"
        /\ futures[get_return_object(c)].ready

\* C21 (suspended coroutines are resumed): a coroutine suspended on a
\* future that was then set with a value v is resumed, and its co_await
\* yields v; a body that was resumed runs until it finishes, which resolves
\* the returned future, or until it is suspended again; a body that returns
\* v leaves the returned future ready with v.
C21_Resumed ==
    /\ \A c \in Coros, v \in Values :
           (/\ coros[c].state = "suspended"
            /\ futures[coros[c].awaited].ready
            /\ futures[coros[c].awaited].value = v)
           ~> (/\ active = c
               /\ coros[c].state = "running"
               /\ coros[c].got = Outcome(v, "none"))
    /\ \A c \in Coros :
           (active = c)
           ~> (\/ futures[get_return_object(c)].promise = "set"
               \/ coros[c].state = "suspended")
    /\ [][\A c \in Coros :
            (/\ coros[c].state = "running"
             /\ coros'[c].state = "done"
             /\ coros'[c].thrown = "none") =>
                /\ futures'[get_return_object(c)].ready
                /\ futures'[get_return_object(c)].value \in Values]_vars

\* A coroutine was suspended on a promise, resumed with the value the
\* promise was set with, and returned that value.
C21_Witness ==
    \E c \in Coros, p \in Promises :
        /\ futures[p].cont = promise_task(c)
        /\ futures[p].invoked = 1
        /\ coros[c].suspends = 1
        /\ coros[c].got.value \in Values
        /\ coros[c].state = "done"
        /\ futures[get_return_object(c)].ready
        /\ futures[get_return_object(c)].value = coros[c].got.value

\* C22 (co_await on an available future): a co_await on a future that is
\* available does not suspend the coroutine: it goes on running with the
\* value or the exception of the future, which is consumed; no continuation
\* is attached to the future and no task is scheduled.
C22_ReadyAwait ==
    [][\A c \in Coros, f \in Futures :
          (/\ active = c
           /\ futures[f].ready
           /\ ~futures[f].moved
           /\ futures'[f].moved) =>
              /\ active' = c
              /\ coros'[c].state = "running"
              /\ coros'[c].suspends = coros[c].suspends
              /\ coros'[c].got = get(futures, f)
              /\ coros'[c].got # NoOutcome
              /\ ~futures'[f].ready
              /\ futures'[f].task = 0
              /\ futures'[f].cont = 0
              /\ queue' = queue
              /\ log' = log]_vars

\* A coroutine that was never suspended is running with the exception of an
\* available future it awaited, after another co_await.
C22_Witness ==
    \E c \in Coros :
        /\ active = c
        /\ coros[c].awaits = 2
        /\ coros[c].suspends = 0
        /\ coros[c].got.exc = "e"

(***************************************************************************)
(* temporary_memory_allocator: further properties                           *)
(***************************************************************************)
\* The number of live objects that were allocated from the block at b.
LiveIn(b) ==
    LET os == {o \in LiveObjs : o.blk = b}
        RECURSIVE sum(_)
        sum(S) == IF S = {} THEN 0
                  ELSE LET o == CHOOSE y \in S : TRUE
                       IN live[o] + sum(S \ {o})
    IN  sum(os)

\* C23 (live-count accounting): the header counter of the open block plus
\* _current_use_count is the number of live objects allocated from it; the
\* header counter of a closed block is the number of live objects allocated
\* from it, and a closed block with none is not held (in every state
\* reached without undefined behaviour).
C23_LiveCount ==
    ub \/
    /\ current # nullptr =>
           OpenBlock.use_count + current_use_count = LiveIn(current)
    /\ \A r \in heap : (r.kind = "bump" /\ Closed(r)) =>
           /\ r.use_count = LiveIn(r.base)
           /\ r.use_count # 0

\* alloc(size) has just returned from allocate_new_block.
NewBlockTaken(call) == call.op = "alloc" /\ call.path = "new_block" /\ ~call.threw

\* The block that is open after allocate_new_block, as the claim has it but
\* for the bump position.
FreshBlock ==
    /\ current # nullptr
    /\ current % block_size = 0
    /\ [base |-> current, size |-> block_size, use_count |-> 0,
        kind |-> "bump"] \in heap
    /\ current_end = current + block_size
    /\ current_use_count = 1
    /\ last.ret = current + header_size

\* C24 as stated (new-block path): after alloc(size) took the new-block
\* path there is a fresh block with its header at offset 0, the bump
\* position is immediately after the header, _current_use_count is 1 and
\* the returned pointer is the header end.
C24_PositionAfterHeader ==
    NewBlockTaken(last) =>
        /\ FreshBlock
        /\ position_in_current = current + header_size

\* C24 amended (new-block path): alloc(size) with size <= max_object_size
\* takes the new-block path when _position_in_current + size > _current_end;
\* the open block is closed (its count posted to its header, the block
\* returned when the header is then zero), there is a fresh block with its
\* header at offset 0, the bump position is after the first object, at
\* header end + align_up(size, alignment), _current_use_count is 1 and the
\* returned pointer is the header end.
C24_NewBlock ==
    /\ [](NewBlockTaken(last) =>
            /\ last.size <= max_object_size
            /\ FreshBlock
            /\ position_in_current =
                   current + header_size + align_up(last.size, alignment))
    /\ [][NewBlockTaken(last') =>
            /\ position_in_current + last'.size > current_end
            /\ current # nullptr =>
                   LET old == OpenBlock
                       posted == old.use_count + current_use_count
                       fresh == [base |-> current', size |-> block_size,
                                 use_count |-> 0, kind |-> "bump"]
                   IN  heap' = (heap \ {old}) \cup {fresh} \cup
                               (IF posted = 0 THEN {}
                                ELSE {[old EXCEPT !.use_count = posted]})]_vars

\* A new block was opened for an object of non-zero size while a block was
\* open, which is now closed and held.
C24_Witness ==
    /\ NewBlockTaken(last)
    /\ last.size > 0
    /\ \E r \in heap : r.kind = "bump" /\ Closed(r) /\ r.use_count > 0

\* C25 (no overlap): the byte ranges of two live allocations of non-zero
\* size are disjoint, and no live allocation of non-zero size overlaps the
\* header of a block that is held (in every state reached without
\* undefined behaviour).
C25_NoOverlap ==
    ub \/
    /\ \A o \in LiveObjs : o.size > 0 =>
           /\ live[o] = 1
           /\ \A q \in LiveObjs \ {o} : q.size > 0 =>
                  ~Overlaps(o.p, o.size, q.p, q.size)
           /\ \A r \in heap : ~Overlaps(o.p, o.size, r.base, header_size)

\* C26 (free keeps the open block): the open block is held, whatever was
\* freed, and the bump position is inside it or at its end; no free
\* returns the block that is open.
C26_OpenBlockKept ==
    /\ [](current # nullptr =>
            /\ \E r \in heap : /\ r.base = current
                               /\ r.kind = "bump"
                               /\ r.size = block_size
            /\ current_end = current + block_size
            /\ current + header_size <= position_in_current
            /\ position_in_current <= current_end)
    /\ [][(last'.op = "free" /\ current # nullptr) =>
            /\ current' = current
            /\ \E r \in heap' : r.base = current]_vars

\* Every object allocated from the open block was freed, and the block is
\* held with a negative header counter.
C26_Witness ==
    /\ current # nullptr
    /\ last.op = "free"
    /\ ~ub
    /\ LiveIn(current) = 0
    /\ OpenBlock.use_count + current_use_count = 0
    /\ current_use_count >= 2

\* C27 (failed block acquisition): an alloc that ends in std::bad_alloc, on
\* the new-block path or on the large-object path, leaves the open block,
\* its header counter, the bump position, the end pointer and
\* _current_use_count as they were, and no block is closed or returned.
C27_FailedAcquisition ==
    /\ [][last'.threw =>
            /\ last'.op = "alloc"
            /\ last'.path \in {"new_block", "large"}
            /\ UNCHANGED <<heap, current, position_in_current, current_end,
                           current_use_count, live>>]_vars
    /\ [](last.threw => last.path = (IF last.size > max_object_size
                                     THEN "large" ELSE "new_block"))

\* alloc failed on the new-block path while a block with objects was open.
C27_Witness ==
    /\ last.threw
    /\ last.path = "new_block"
    /\ current # nullptr
    /\ current_use_count >= 2
    /\ position_in_current + last.size > current_end

(***************************************************************************)
(* lz4_fragmented_compressor: further properties                            *)
(***************************************************************************)
\* compress returned from the path for small messages (the general path
\* leaves its output buffers in dst_buffers).
FastPathTaken == c_pc = "done" /\ dst_buffers = <<>>

GeneralPathTaken == c_pc = "done" /\ dst_buffers # <<>>

\* The bytes of the chunks of a frame: 4 for each header and the size of
\* each block.
RECURSIVE ChunkBytes(_)
ChunkBytes(chunks) ==
    IF chunks = <<>> THEN 0
    ELSE chunk_header_size + Head(chunks).body[1].n + ChunkBytes(Tail(chunks))

\* A frame as the wire format has it: intermediate chunks, then one last
\* chunk, each with one whole block.
WellFormed(f) ==
    /\ f.ok
    /\ Len(f.chunks) >= 1
    /\ \A i \in 1..Len(f.chunks) :
           /\ f.chunks[i].hdr.last <=> i = Len(f.chunks)
           /\ WholeBlock(f.chunks[i].body)

\* C28 (fast path of compress): compress takes the path for small messages
\* exactly when bound(size) + head_space + 4 <= chunk_size and
\* size <= chunk_size; it then returns one buffer of head_space + 4 +
\* compressed size bytes with the header of a last chunk, payload = size,
\* at offset head_space; otherwise it takes the general path, whose frame
\* is well formed.
C28_FastPath ==
    c_pc = "done" =>
        LET size == c_in.size
            small == /\ LZ4_COMPRESSBOUND(size) + head_space + 4 <= chunk_size
                     /\ size <= chunk_size
            first == c_out.bufs[1]
            body == Norm(BDrop(first, head_space + 4))
        IN  /\ FastPathTaken <=> small
            /\ FastPathTaken =>
                   /\ Len(c_out.bufs) = 1
                   /\ c_out.single
                   /\ WholeBlock(body)
                   /\ Covered(body) = size
                   /\ BLen(first) = head_space + 4 + body[1].n
                   /\ c_out.size = BLen(first)
                   /\ BLen(BTake(BDrop(first, head_space), 4)) = 4
                   /\ le_to_cpu(BTake(BDrop(first, head_space), 4)) = Header(TRUE, size)
            /\ GeneralPathTaken => WellFormed(Frame)

\* A message that fits in a chunk but whose bound, with the head space,
\* does not: it went through the general path.
C28_Witness ==
    /\ GeneralPathTaken
    /\ c_in.size > 0 /\ c_in.size <= chunk_size
    /\ head_space = 8
    /\ WellFormed(Frame)

\* C29 (output segmentation): on the general path the first output buffer
\* has room for max(head_space, chunk_size) bytes and every further one for
\* chunk_size; every buffer but the last is full, the last is cut to what
\* was written, and the size of the output is head_space plus 4 and the
\* compressed size for each chunk, which is the sum of the buffer lengths.
C29_Segmentation ==
    /\ c_pc = "chunks" =>
           \A i \in 1..(Len(dst_buffers) - 1) :
               BLen(dst_buffers[i]) =
                   (IF i = 1 THEN Max(head_space, chunk_size) ELSE chunk_size)
    /\ GeneralPathTaken =>
           LET f == Frame
               k == Len(c_out.bufs)
           IN  /\ WellFormed(f)
               /\ k >= 1
               /\ \A i \in 1..(k - 1) :
                      BLen(c_out.bufs[i]) =
                          (IF i = 1 THEN Max(head_space, chunk_size) ELSE chunk_size)
               /\ BLen(c_out.bufs[k]) > 0
               /\ BLen(c_out.bufs[k]) <=
                      (IF k = 1 THEN Max(head_space, chunk_size) ELSE chunk_size)
               /\ c_out.size = head_space + ChunkBytes(f.chunks)
               /\ c_out.size = BLen(Concat(c_out.bufs))
               /\ k > 1 => Written(c_out.bufs[k])

\* A frame of three chunks in three buffers, the first with head space, the
\* last cut short.
C29_Witness ==
    /\ GeneralPathTaken
    /\ head_space = 8
    /\ Len(c_out.bufs) = 3
    /\ Len(Frame.chunks) = 3
    /\ BLen(c_out.bufs[3]) < chunk_size

\* decompress went past the length test and the stream reset and is done.
Decoded == d_pc = "done" /\ d_reset /\ ~too_short(d_in.size)

\* decompress returned from, or threw in, the path for a single chunk in a
\* single buffer (the general path counts every chunk in total_size and
\* keeps its output buffers in dst_buffers).
DecompressFastTaken == Decoded /\ d_dst_buffers = <<>> /\ total_size = 0

\* C30 (decompress dispatch and output shape): decompress takes the fast
\* path exactly when the input is one buffer and its first header has bit
\* 31 set, and then returns one buffer of the header's payload size;
\* otherwise it returns, for each intermediate header in order, one buffer
\* of chunk_size decoded from the header_value bytes behind the header,
\* and one last buffer of the last header's payload size decoded from all
\* the bytes left; the size of the output is chunk_size times the number
\* of intermediate chunks plus the last payload.
C30_Dispatch ==
    Decoded =>
        LET first == le_to_cpu(BTake(Concat(d_in.bufs), chunk_header_size))
            out == d_out.buf
        IN  /\ DecompressFastTaken <=> (d_in.single /\ first.last)
            /\ (DecompressFastTaken /\ d_out.status = "ok") =>
                   /\ out.single
                   /\ Len(out.bufs) = 1
                   /\ BLen(out.bufs[1]) = first.n
                   /\ out.size = first.n
            /\ (~DecompressFastTaken /\ d_out.status = "ok") =>
                   LET f == GivenFrame
                       k == Len(f.chunks) - 1
                   IN  /\ f.ok
                       /\ Len(out.bufs) = k + 1
                       /\ \A i \in 1..k :
                              /\ ~f.chunks[i].hdr.last
                              /\ BLen(f.chunks[i].body) = f.chunks[i].hdr.n
                              /\ BLen(out.bufs[i]) = chunk_size
                              /\ Norm(out.bufs[i]) = LZ4_decoded(f.chunks[i].body)
                       /\ f.chunks[k + 1].hdr.last
                       /\ BLen(out.bufs[k + 1]) = f.chunks[k + 1].hdr.n
                       /\ Norm(out.bufs[k + 1]) = LZ4_decoded(f.chunks[k + 1].body)
                       /\ out.size = chunk_size * k + f.chunks[k + 1].hdr.n
                       /\ out.size = BLen(Concat(out.bufs))
                       /\ d_src_left = 0

\* A frame of three chunks, given in one buffer, went through the general
\* path.
C30_Witness ==
    /\ Decoded
    /\ d_out.status = "ok"
    /\ d_in.single
    /\ ~DecompressFastTaken
    /\ Len(d_out.buf.bufs) = 3
    /\ d_out.buf.size = 2 * chunk_size + 1

\* How many bytes decompress has taken from its input.
BytesTaken == d_in.size - d_src_left

\* decompress ended with the error of a frame that cannot be decoded.
FrameLevelError == d_out = Result("decompression failure", NoBuf)

\* C31 (decompress stays inside its input): for every frame of at least 4
\* bytes, well-formed or not, decompress takes no more bytes than its
\* input has, its count of the bytes left never goes below zero, and a
\* frame that ends inside a chunk or before a last-chunk header ends in
\* the error of a frame that cannot be decoded.
C31_InsideInput ==
    (d_pc # "idle" /\ d_reset /\ ~too_short(d_in.size)) =>
        /\ BytesTaken <= BLen(Concat(d_in.bufs))
        /\ d_src_left >= 0
        /\ (d_pc = "done" /\ ~GivenFrame.ok) => FrameLevelError

\* C32 (eager start and self-destruction): a coroutine that is called runs
\* its body at once, with no task handed to the scheduler to start it, up
\* to the first co_await of a future that is not available; when the body
\* returns or throws, the outcome is set in the returned future and the
\* frame is destroyed in the same step, with no suspension at the end.
C32_EagerStart ==
    /\ [](\A c \in Coros :
            (coros[c].state # "unborn" /\ coros[c].suspends = 0) =>
                /\ log[promise_task(c)] = Counts(0, 0, 0)
                /\ Queued(promise_task(c)) = 0
                /\ InSlot(promise_task(c)) = 0)
    /\ [][\A c \in Coros :
            LET ret == get_return_object(c)
            IN  /\ (coros[c].state = "unborn" /\ coros'[c].state # "unborn") =>
                       /\ coros'[c].state = "running"
                       /\ active' = c
                       /\ futures'[ret].promise = "unset"
                       /\ queue' = queue /\ log' = log
                /\ (coros[c].suspends = 0 /\ coros'[c].suspends # 0) =>
                       /\ coros'[c].awaits = coros[c].awaits + 1
                       /\ ~available(futures, coros'[c].awaited)
                /\ (active = c /\ active' # c
                      /\ coros'[c].awaits = coros[c].awaits) =>
                       /\ coros'[c].state = "done"
                       /\ coros'[c].destroyed = coros[c].destroyed + 1
                       /\ coros'[c].suspends = coros[c].suspends
                       /\ futures'[ret].promise = "set"
                       /\ futures'[ret].ready
                       /\ futures'[ret].exc = coros'[c].thrown
                       /\ (coros'[c].thrown = "none") <=> (futures'[ret].value \in Values)
         ]_vars

\* A coroutine that was called, awaited two available futures and threw,
\* all without a suspension and without the scheduler.
C32_Witness ==
    \E c \in Coros :
        /\ coros[c].state = "done"
        /\ coros[c].suspends = 0
        /\ coros[c].awaits = 2
        /\ coros[c].thrown = "e"
        /\ coros[c].destroyed = 1
        /\ log[promise_task(c)].handed = 0
        /\ futures[get_return_object(c)].exc = "e"

\* C33 (disposing a suspended coroutine): when the task of a suspended
\* coroutine is disposed of instead of run, the frame is destroyed, once
\* and without the body being resumed, and the future the coroutine
\* returned is ready with the broken-promise exception from that step on,
\* not pending.
C33_DisposeSuspended ==
    /\ [](\A c \in Coros :
            /\ coros[c].destroyed <= 1
            /\ log[promise_task(c)].disposes = 1 =>
                   /\ coros[c].state = "done"
                   /\ coros[c].destroyed = 1
                   /\ active # c
                   /\ Queued(promise_task(c)) = 0
                   /\ InSlot(promise_task(c)) = 0
                   /\ futures[get_return_object(c)].promise = "broken"
                   /\ \/ futures[get_return_object(c)].ready
                      \/ futures[get_return_object(c)].moved)
    /\ [][\A c \in Coros :
            LET t == promise_task(c)
                ret == get_return_object(c)
            IN  log'[t].disposes # log[t].disposes =>
                    /\ coros[c].state = "suspended"
                    /\ coros'[c].state = "done"
                    /\ coros[c].destroyed = 0 /\ coros'[c].destroyed = 1
                    /\ log'[t].runs = log[t].runs
                    /\ coros'[c].got = coros[c].got
                    /\ coros'[c].awaits = coros[c].awaits
                    /\ active' = 0
                    /\ ~futures[ret].ready
                    /\ futures'[ret].ready
                    /\ futures'[ret].exc = "broken_promise"
                    /\ futures'[ret].value = 0
         ]_vars

\* A coroutine that was resumed once and suspended again was disposed of;
\* the future it returned holds the broken-promise exception.
C33_Witness ==
    \E c \in Coros :
        /\ log[promise_task(c)] = Counts(2, 1, 1)
        /\ coros[c].suspends = 2
        /\ coros[c].destroyed = 1
        /\ futures[get_return_object(c)].ready
        /\ futures[get_return_object(c)].exc = "broken_promise"

\* How many owners the promise object of coroutine c has as a task: the
\* continuation slots and the queue entries that hold it, and the scheduler
\* that is running it.
Owners(c) ==
    InSlot(promise_task(c)) + Queued(promise_task(c))
        + (IF active = c THEN 1 ELSE 0)

\* C34 (single owner of a coroutine's promise task): over all the
\* suspensions of a coroutine, one after the other, its promise object is
\* held as a task by at most one owner: the continuation slot of one
\* pending future, or the queue, or it is running; it is never in two
\* slots, and it is never resumed while it runs or after its frame was
\* destroyed.
C34_SingleOwner ==
    /\ [](\A c \in Coros :
            LET t == promise_task(c)
            IN  /\ Owners(c) <= 1
                /\ coros[c].state = "suspended" =>
                       /\ InSlot(t) + Queued(t) = 1
                       /\ active # c
                /\ coros[c].state = "running" => active = c
                /\ coros[c].state \in {"unborn", "done"} => Owners(c) = 0
                /\ \A f \in Futures :
                       futures[f].task = t =>
                           /\ ~futures[f].ready
                           /\ futures[f].promise = "unset"
                           /\ coros[c].awaited = f)
    /\ [][\A c \in Coros :
            LET t == promise_task(c)
            IN  log'[t].runs # log[t].runs =>
                    /\ log'[t].runs = log[t].runs + 1
                    /\ coros[c].state = "suspended"
                    /\ coros[c].destroyed = 0
                    /\ active = 0
                    /\ Queued(t) = 1 /\ InSlot(t) = 0
                    /\ coros'[c].state = "running"
                    /\ active' = c
                    /\ Owners(c)' = 1
         ]_vars

\* A coroutine in its second suspension, its task in the slot of a pending
\* future, after the first suspension ended with a run of the task.
C34_Witness ==
    \E c \in Coros :
        /\ coros[c].suspends = 2
        /\ coros[c].state = "suspended"
        /\ log[promise_task(c)] = Counts(1, 1, 0)
        /\ InSlot(promise_task(c)) = 1
        /\ Queued(promise_task(c)) = 0

====
